---- MODULE Spec2Model ----
(***************************************************************************)
(* SQL Safety Gateway of the natural-language-to-SQL assistant:           *)
(*   - SQLValidator          (src/src/utils/sql_validator.py)              *)
(*   - _execute_with_retry,  query_database                                *)
(*                           (src/src/tools/database_query_tool.py)        *)
(*   - DatabaseManager       (src/src/utils/db_connection.py)              *)
(* SQL texts and error messages are strings; a character is a string of   *)
(* length one.  Recursion is written with recursive functions over the    *)
(* positions of a string or of a token sequence.                           *)
(***************************************************************************)
EXTENDS Integers, Sequences, FiniteSets, TLC

(***************************************************************************)
(* Bounds of the model.                                                    *)
(***************************************************************************)
\* largest max_retries a caller of _execute_with_retry passes
MaxRetriesBound == 3
\* largest number of rows one execution returns
MaxRows == 2

\* how many times in a row the validator is called with one text, and the
\* guardrail rewrite applied to its own output
MaxApplications == 2

\* how many items a list or a dict handed to the conversion holds at most
MaxItems == 2

(***************************************************************************)
(* Characters and strings (Python str).                                    *)
(***************************************************************************)
Char(s, i) == SubSeq(s, i, i)

LowerAlpha == "abcdefghijklmnopqrstuvwxyz"
UpperAlpha == "ABCDEFGHIJKLMNOPQRSTUVWXYZ"
DigitChars == "0123456789"

CharsOf(s) == { Char(s, i) : i \in 1..Len(s) }

LowerChars == CharsOf(LowerAlpha)
UpperChars == CharsOf(UpperAlpha)
DigitSet == CharsOf(DigitChars)

\* the upper-case form of each lower-case letter, and the converse
UpperOf ==
    [a |-> "A", b |-> "B", c |-> "C", d |-> "D", e |-> "E", f |-> "F", g |-> "G",
     h |-> "H", i |-> "I", j |-> "J", k |-> "K", l |-> "L", m |-> "M", n |-> "N",
     o |-> "O", p |-> "P", q |-> "Q", r |-> "R", s |-> "S", t |-> "T", u |-> "U",
     v |-> "V", w |-> "W", x |-> "X", y |-> "Y", z |-> "Z"]
LowerOf ==
    [A |-> "a", B |-> "b", C |-> "c", D |-> "d", E |-> "e", F |-> "f", G |-> "g",
     H |-> "h", I |-> "i", J |-> "j", K |-> "k", L |-> "l", M |-> "m", N |-> "n",
     O |-> "o", P |-> "p", Q |-> "q", R |-> "r", S |-> "s", T |-> "t", U |-> "u",
     V |-> "v", W |-> "w", X |-> "x", Y |-> "y", Z |-> "z"]

\* str.upper() and str.lower() on one character
UpperChar(c) == IF c \in LowerChars THEN UpperOf[c] ELSE c
LowerChar(c) == IF c \in UpperChars THEN LowerOf[c] ELSE c

\* str.upper()
StrUpper(s) ==
    LET up[i \in 0..Len(s)] == IF i = 0 THEN "" ELSE up[i - 1] \o UpperChar(Char(s, i))
    IN  up[Len(s)]

\* str.lower()
StrLower(s) ==
    LET low[i \in 0..Len(s)] == IF i = 0 THEN "" ELSE low[i - 1] \o LowerChar(Char(s, i))
    IN  low[Len(s)]

\* sep.join(strs)
JoinStr(strs, sep) ==
    LET j[i \in 0..Len(strs)] ==
            IF i = 0 THEN "" ELSE IF i = 1 THEN strs[1] ELSE j[i - 1] \o sep \o strs[i]
    IN  j[Len(strs)]

\* needle in haystack (Python's operator in on strings)
Contains(haystack, needle) ==
    \E i \in 1..(Len(haystack) - Len(needle) + 1) :
        SubSeq(haystack, i, i + Len(needle) - 1) = needle

StartsWith(s, prefix) == Len(s) >= Len(prefix) /\ SubSeq(s, 1, Len(prefix)) = prefix

MinOf(S) == CHOOSE x \in S : \A y \in S : x <= y
MaxOf(S) == CHOOSE x \in S : \A y \in S : x >= y

WhitespaceChars == {" ", "\n", "\t"}

\* the characters the regular expression class \w matches
WordCharSet == LowerChars \cup UpperChars \cup DigitSet \cup {"_"}
IsWordChar(c) == c \in WordCharSet

IsWordAt(s, p) == p >= 1 /\ p <= Len(s) /\ IsWordChar(Char(s, p))

\* the regular expression anchor \b between the characters p and p+1
WordBoundary(s, p) == IsWordAt(s, p) # IsWordAt(s, p + 1)

\* re.search(r"\b" + re.escape(word) + r"\b", s)
\* re.search: a mutation that drops the two \\b of the pattern
ReSearchWord_substring(word, s) ==
    \E i \in 1..(Len(s) - Len(word) + 1) : SubSeq(s, i, i + Len(word) - 1) = word

ReSearchWord(word, s) ==
    \E i \in 1..(Len(s) - Len(word) + 1) :
        /\ SubSeq(s, i, i + Len(word) - 1) = word
        /\ WordBoundary(s, i - 1)
        /\ WordBoundary(s, i + Len(word) - 1)

(***************************************************************************)
(* sqlglot.parse_one(sql, dialect="postgres"), on the SQL subset the       *)
(* statements of the model are drawn from: the tokenizer, the statement    *)
(* parser and the generator (Expression.sql).  A node carries the text the *)
(* generator produces for it: sql for an expression, flat (one line) and   *)
(* lines (pretty=True) for a statement.                                    *)
(***************************************************************************)
Tok(tt, v) == [tt |-> tt, v |-> v]

\* index of the first c in s at or after i; 0 when there is none
FindChar(s, c, i) ==
    LET hits == { j \in i..Len(s) : Char(s, j) = c }
    IN  IF hits = {} THEN 0 ELSE MinOf(hits)

\* index of the last character of the word that starts at i
WordEnd(s, i) ==
    MinOf({ j \in i..Len(s) : ~IsWordAt(s, j + 1) })

\* Tokenizer: white space and "--" comments are skipped, '...' is a string,
\* "..." a quoted identifier; an unterminated quote is a TokenError.
\* lex[i] is the result for the text from position i on.
Tokenize(s) ==
    LET lex[i \in 1..(Len(s) + 1)] ==
          IF i > Len(s) THEN [ok |-> TRUE, toks |-> <<>>]
          ELSE LET c == Char(s, i) IN
            IF c \in WhitespaceChars THEN lex[i + 1]
            ELSE IF c = "-" /\ i < Len(s) /\ Char(s, i + 1) = "-"
            THEN LET nl == FindChar(s, "\n", i)
                 IN  IF nl = 0 THEN [ok |-> TRUE, toks |-> <<>>] ELSE lex[nl + 1]
            ELSE IF c = "'" \/ c = "\""
            THEN LET j == FindChar(s, c, i + 1)
                     rest == lex[j + 1]
                 IN  IF j = 0 THEN [ok |-> FALSE, toks |-> <<>>]
                     ELSE [ok |-> rest.ok,
                           toks |-> <<Tok(IF c = "'" THEN "string" ELSE "qident",
                                          SubSeq(s, i, j))>> \o rest.toks]
            ELSE IF IsWordChar(c)
            THEN LET j == WordEnd(s, i)
                     rest == lex[j + 1]
                 IN  [ok |-> rest.ok,
                      toks |-> <<Tok(IF c \in DigitSet THEN "number" ELSE "word",
                                     SubSeq(s, i, j))>> \o rest.toks]
            ELSE LET rest == lex[i + 1]
                 IN  [ok |-> rest.ok, toks |-> <<Tok("punct", c)>> \o rest.toks]
    IN  lex[1]

ReservedWords ==
    {"SELECT", "FROM", "WHERE", "GROUP", "BY", "LIMIT", "UNION", "WITH", "AS",
     "HAVING", "ORDER", "ON", "TABLE", "INTO", "SET", "VALUES"}

\* statement keywords other than SELECT / WITH, and the key of the node each
\* one parses to
CommandKeys ==
    [DROP |-> "drop", DELETE |-> "delete", UPDATE |-> "update", INSERT |-> "insert",
     CREATE |-> "create", ALTER |-> "alter", TRUNCATE |-> "truncatetable",
     GRANT |-> "grant", REVOKE |-> "revoke", COMMIT |-> "commit",
     ROLLBACK |-> "rollback", SHOW |-> "command"]

IsKw(t, kw) == t.tt = "word" /\ StrUpper(t.v) = kw
IsPunct(t, c) == t.tt = "punct" /\ t.v = c
IsIdent(t) == t.tt = "qident" \/ (t.tt = "word" /\ StrUpper(t.v) \notin ReservedWords)

\* result of a parsing step: the node and the position of the next token
POk(node, next) == [ok |-> TRUE, node |-> node, next |-> next]
PFail == [ok |-> FALSE, node |-> [k |-> "none"], next |-> 0]

ExprNode(k, text) == [k |-> k, sql |-> text]

ExprSqls(exprs) == [i \in 1..Len(exprs) |-> exprs[i].sql]

\* one expression per line, separated by commas
ExprLines(exprs) ==
    [i \in 1..Len(exprs) |-> "  " \o exprs[i].sql \o (IF i < Len(exprs) THEN "," ELSE "")]

Indent(lines) == [i \in 1..Len(lines) |-> "  " \o lines[i]]

LimitLines(limit) == IF limit = <<>> THEN <<>> ELSE <<"LIMIT " \o limit[1]>>
LimitStr(limit) == IF limit = <<>> THEN "" ELSE " LIMIT " \o limit[1]

\* Select node; from, where and limit hold at most one element
SelectNode(exprs, from, where, group, limit) ==
    [k |-> "select", with |-> <<>>, exprs |-> exprs, from |-> from, where |-> where,
     group |-> group, limit |-> limit,
     lines |-> <<"SELECT">> \o ExprLines(exprs)
               \o (IF from = <<>> THEN <<>> ELSE <<"FROM " \o from[1]>>)
               \o (IF where = <<>> THEN <<>> ELSE <<"WHERE", "  " \o where[1].sql>>)
               \o (IF group = <<>> THEN <<>> ELSE <<"GROUP BY">> \o ExprLines(group))
               \o LimitLines(limit),
     flat |-> "SELECT " \o JoinStr(ExprSqls(exprs), ", ")
              \o (IF from = <<>> THEN "" ELSE " FROM " \o from[1])
              \o (IF where = <<>> THEN "" ELSE " WHERE " \o where[1].sql)
              \o (IF group = <<>> THEN "" ELSE " GROUP BY " \o JoinStr(ExprSqls(group), ", "))
              \o LimitStr(limit)]

\* Union node; the modifiers of the right operand belong to the set operation
UnionNode(left, right, limit) ==
    [k |-> "union", with |-> <<>>, left |-> left, right |-> right, limit |-> limit,
     lines |-> left.lines \o <<"UNION">> \o right.lines \o LimitLines(limit),
     flat |-> left.flat \o " UNION " \o right.flat \o LimitStr(limit)]

\* WITH name AS (sub) in front of a query node
WithNode(name, sub, main) ==
    [main EXCEPT
       !.with = <<[name |-> name, query |-> sub]>>,
       !.lines = <<"WITH " \o name \o " AS (">> \o Indent(sub.lines) \o <<")">> \o @,
       !.flat = "WITH " \o name \o " AS (" \o sub.flat \o ") " \o @]

\* a command, generated from its tokens with the statement keyword upper-cased
CommandNode(toks) ==
    LET text == JoinStr([i \in 1..Len(toks) |->
                            IF i = 1 THEN StrUpper(toks[i].v) ELSE toks[i].v], " ")
    IN  [k |-> CommandKeys[StrUpper(toks[1].v)], toks |-> toks,
         lines |-> <<text>>, flat |-> text]

\* one statement (the tokens between two semicolons): a query, a command or a
\* bare expression; ok only when every token is consumed
ParseStatement(toks) ==
    LET n == Len(toks)
        HasKw(i, kw) == i >= 1 /\ i <= n /\ IsKw(toks[i], kw)
        HasPunct(i, c) == i >= 1 /\ i <= n /\ IsPunct(toks[i], c)
        HasIdent(i) == i >= 1 /\ i <= n /\ IsIdent(toks[i])
        \* expression: * | literal | ( expr ) | name ( expr ) | column
        expr[i \in 1..(n + 1)] ==
            IF i > n THEN PFail
            ELSE CASE IsPunct(toks[i], "*") -> POk(ExprNode("star", "*"), i + 1)
                   [] toks[i].tt \in {"number", "string"} ->
                        POk(ExprNode("literal", toks[i].v), i + 1)
                   [] IsPunct(toks[i], "(") ->
                        LET p == expr[i + 1]
                        IN  IF p.ok /\ HasPunct(p.next, ")")
                            THEN POk(ExprNode("paren", "(" \o p.node.sql \o ")"), p.next + 1)
                            ELSE PFail
                   [] IsIdent(toks[i]) ->
                        IF HasPunct(i + 1, "(")
                        THEN LET p == expr[i + 2]
                             IN  IF p.ok /\ HasPunct(p.next, ")")
                                 THEN POk(ExprNode("anonymous",
                                                   StrUpper(toks[i].v) \o "(" \o p.node.sql \o ")"),
                                          p.next + 1)
                                 ELSE PFail
                        ELSE POk(ExprNode("column", toks[i].v), i + 1)
                   [] OTHER -> PFail
        \* expr { , expr }; the node is the sequence of the expressions
        exprList[i \in 1..(n + 1)] ==
            LET p == expr[i]
            IN  IF ~p.ok THEN PFail
                ELSE IF HasPunct(p.next, ",")
                THEN LET q == exprList[p.next + 1]
                     IN  IF q.ok THEN POk(<<p.node>> \o q.node, q.next) ELSE PFail
                ELSE POk(<<p.node>>, p.next)
        \* expr = expr
        CondRight(p, q) ==
            IF q.ok THEN POk(ExprNode("eq", p.node.sql \o " = " \o q.node.sql), q.next)
            ELSE PFail
        CondLeft(p) ==
            IF p.ok /\ HasPunct(p.next, "=") THEN CondRight(p, expr[p.next + 1]) ELSE PFail
        Cond(i) == CondLeft(expr[i])
        \* SELECT exprs [FROM table] [WHERE cond] [GROUP BY exprs] [LIMIT n]:
        \* s holds the clauses parsed so far and the position of the next token
        Failed(s) == [s EXCEPT !.ok = FALSE]
        SelectList(pe) ==
            [ok |-> pe.ok, exprs |-> pe.node, from |-> <<>>, where |-> <<>>, group |-> <<>>,
             limit |-> <<>>, next |-> pe.next]
        FromClause(s) ==
            IF ~s.ok \/ ~HasKw(s.next, "FROM") THEN s
            ELSE IF HasIdent(s.next + 1)
            THEN [s EXCEPT !.from = <<toks[s.next + 1].v>>, !.next = s.next + 2]
            ELSE Failed(s)
        WhereCond(s, pw) ==
            IF pw.ok THEN [s EXCEPT !.where = <<pw.node>>, !.next = pw.next] ELSE Failed(s)
        WhereClause(s) ==
            IF ~s.ok \/ ~HasKw(s.next, "WHERE") THEN s ELSE WhereCond(s, Cond(s.next + 1))
        GroupList(s, pg) ==
            IF pg.ok THEN [s EXCEPT !.group = pg.node, !.next = pg.next] ELSE Failed(s)
        GroupClause(s) ==
            IF ~s.ok \/ ~HasKw(s.next, "GROUP") THEN s
            ELSE IF HasKw(s.next + 1, "BY") THEN GroupList(s, exprList[s.next + 2])
            ELSE Failed(s)
        LimitClause(s) ==
            IF ~s.ok \/ ~HasKw(s.next, "LIMIT") THEN s
            ELSE IF s.next + 1 <= n /\ toks[s.next + 1].tt = "number"
            THEN [s EXCEPT !.limit = <<toks[s.next + 1].v>>, !.next = s.next + 2]
            ELSE Failed(s)
        SelectOf(s) ==
            IF s.ok THEN POk(SelectNode(s.exprs, s.from, s.where, s.group, s.limit), s.next)
            ELSE PFail
        Select(i) ==
            IF ~HasKw(i, "SELECT") THEN PFail
            ELSE SelectOf(LimitClause(GroupClause(WhereClause(FromClause(
                     SelectList(exprList[i + 1]))))))
        \* select [UNION select]
        UnionRight(l, r) ==
            IF r.ok
            THEN POk(UnionNode(l.node,
                               SelectNode(r.node.exprs, r.node.from, r.node.where,
                                          r.node.group, <<>>),
                               r.node.limit), r.next)
            ELSE PFail
        UnionLeft(l) ==
            IF l.ok /\ HasKw(l.next, "UNION") THEN UnionRight(l, Select(l.next + 1)) ELSE l
        \* WITH name AS ( query ) query; q is the function query
        WithMain(i, sub, main) ==
            IF main.ok /\ main.node.with = <<>>
            THEN POk(WithNode(toks[i + 1].v, sub.node, main.node), main.next)
            ELSE PFail
        WithSub(i, sub, q) ==
            IF sub.ok /\ HasPunct(sub.next, ")") THEN WithMain(i, sub, q[sub.next + 1])
            ELSE PFail
        query[i \in 1..(n + 1)] ==
            IF HasKw(i, "WITH")
            THEN IF HasIdent(i + 1) /\ HasKw(i + 2, "AS") /\ HasPunct(i + 3, "(") /\ i + 4 <= n
                 THEN WithSub(i, query[i + 4], query)
                 ELSE PFail
            ELSE UnionLeft(Select(i))
        \* depth[i]: open parentheses after the first i tokens, -1 once unbalanced
        depth[i \in 0..n] ==
            IF i = 0 THEN 0
            ELSE LET d == depth[i - 1]
                 IN  IF d < 0 THEN -1
                     ELSE IF IsPunct(toks[i], "(") THEN d + 1
                     ELSE IF IsPunct(toks[i], ")") THEN d - 1
                     ELSE d
        Consumed(parsed) == [ok |-> parsed.ok /\ parsed.next = n + 1, node |-> parsed.node]
    IN  IF n = 0 THEN Consumed(PFail)
        ELSE IF HasKw(1, "SELECT") \/ HasKw(1, "WITH") THEN Consumed(query[1])
        ELSE IF toks[1].tt = "word" /\ StrUpper(toks[1].v) \in DOMAIN CommandKeys
        THEN IF depth[n] = 0 THEN Consumed(POk(CommandNode(toks), n + 1)) ELSE Consumed(PFail)
        ELSE Consumed(expr[1])

\* the token chunks between semicolons; a trailing semicolon opens no chunk
SplitStatements(toks) ==
    LET n == Len(toks)
        semis == { i \in 1..n : IsPunct(toks[i], ";") }
        starts == {1} \cup { i + 1 : i \in { j \in semis : j < n } }
        nth(m) == CHOOSE a \in starts : Cardinality({ b \in starts : b < a }) = m - 1
        endOf(a) == LET later == { i \in semis : i >= a }
                    IN  IF later = {} THEN n ELSE MinOf(later) - 1
    IN  [m \in 1..Cardinality(starts) |-> SubSeq(toks, nth(m), endOf(nth(m)))]

\* parse_one: the tree of the first statement, or the error raised
\*   status "ok" | "ParseError" | "TokenError"
ParseResult(parsed) ==
    IF \E i \in DOMAIN parsed : ~parsed[i].ok
    THEN [status |-> "ParseError", node |-> [k |-> "none"],
          msg |-> "Invalid expression / Unexpected token"]
    ELSE [status |-> "ok", node |-> parsed[1].node, msg |-> ""]

ParseChunks(text, chunks) ==
    IF chunks[1] = <<>>
    THEN [status |-> "ParseError", node |-> [k |-> "none"],
          msg |-> "No expression was parsed from '" \o text \o "'"]
    ELSE ParseResult([i \in DOMAIN chunks |-> ParseStatement(chunks[i])])

ParseTokens(text, lx) ==
    IF ~lx.ok
    THEN [status |-> "TokenError", node |-> [k |-> "none"],
          msg |-> "Error tokenizing '" \o text \o "'"]
    ELSE ParseChunks(text, SplitStatements(lx.toks))

parse_one(text) == ParseTokens(text, Tokenize(text))

\* Expression.sql(pretty=...)
NodeSql(n, pretty) ==
    IF "flat" \in DOMAIN n
    THEN IF pretty THEN JoinStr(n.lines, "\n") ELSE n.flat
    ELSE n.sql

(***************************************************************************)
(* GuardrailsConfig (src/src/config.py).                                   *)
(***************************************************************************)
blocked_operations ==
    <<"DROP", "DELETE", "UPDATE", "INSERT", "CREATE", "ALTER", "TRUNCATE", "GRANT", "REVOKE">>
default_limit == 100
max_retry_attempts == 3

(***************************************************************************)
(* SQLValidator (src/src/utils/sql_validator.py).  An exception is a       *)
(* record of its class and its message; NoError stands for None / for no   *)
(* exception raised.                                                       *)
(***************************************************************************)
SQLValidationError(msg) == [type |-> "SQLValidationError", msg |-> msg]
NoError == [type |-> "NoneType", msg |-> "None"]

\* SQLValidator.__init__
blocked_ops == [i \in DOMAIN blocked_operations |-> StrUpper(blocked_operations[i])]

\* Each gate of the validator calls sqlglot.parse_one(sql) anew; parse_one
\* is a function of the text, so the gates below are handed its one outcome p.

\* gate 1: a mutation that returns early on an empty text
validate_syntax_nonempty(text, p) ==
    CASE p.status = "ParseError" /\ text # "" ->
           SQLValidationError("Erro de sintaxe SQL: " \o p.msg)
      [] p.status = "TokenError" -> SQLValidationError("Erro ao validar SQL: " \o p.msg)
      [] OTHER -> NoError

\* gate 1; the branch for parsed being None is never taken, parse_one raises instead
validate_syntax(text, p) ==
    CASE p.status = "ParseError" -> SQLValidationError("Erro de sintaxe SQL: " \o p.msg)
      [] p.status = "TokenError" -> SQLValidationError("Erro ao validar SQL: " \o p.msg)
      [] OTHER -> NoError

\* the positions in blocked_ops of the keywords found as whole words
BlockedHits(text) ==
    LET sql_upper == StrUpper(text)
    IN  { i \in DOMAIN blocked_ops : ReSearchWord(blocked_ops[i], sql_upper) }

BlockedMessage(op) ==
    "Operação bloqueada detectada: " \o op \o ". Apenas queries SELECT (read-only) são permitidas."

\* the loop raising at the last keyword that matches
FirstBlocked_last(hits) ==
    IF hits = {} THEN NoError
    ELSE SQLValidationError(BlockedMessage(blocked_ops[MaxOf(hits)]))

\* the loop over blocked_ops raises at the first keyword that matches
FirstBlocked(hits) ==
    IF hits = {} THEN NoError
    ELSE SQLValidationError(BlockedMessage(blocked_ops[MinOf(hits)]))

\* gate 2: a mutation that never raises
check_blocked_operations_off(text) == NoError

\* gate 2
check_blocked_operations(text) == FirstBlocked(BlockedHits(text))

\* a mutation that also allows transaction statements
allowed_types_wide == {"select", "union", "with", "commit", "rollback"}

allowed_types == {"select", "union", "with"}

KindMessage(exp_type) ==
    "Apenas queries SELECT são permitidas. Tipo detectado: " \o StrUpper(exp_type)

\* gate 3 left out: every kind of statement passes
ensure_read_only_off(p) == NoError

\* gate 3; a ParseError is passed over, any other parser error propagates
ensure_read_only(p) ==
    CASE p.status = "ParseError" -> NoError
      [] p.status = "TokenError" -> [type |-> "TokenError", msg |-> p.msg]
      [] OTHER ->
           IF StrLower(p.node.k) \notin allowed_types
           THEN SQLValidationError(KindMessage(StrLower(p.node.k)))
           ELSE NoError

\* formatting without the fallback: nothing is returned when the text does
\* not parse
format_sql_no_fallback(text, p) == IF p.status = "ok" THEN NodeSql(p.node, TRUE) ELSE ""

format_sql(text, p) == IF p.status = "ok" THEN NodeSql(p.node, TRUE) ELSE text

\* the limit of the statement is not looked at
has_limit_never(parsed) == FALSE

has_limit(parsed) == "limit" \in DOMAIN parsed /\ parsed.limit # <<>>

\* the aggregate calls alone, GROUP BY left out
agg_functions_calls == <<"COUNT(", "SUM(", "AVG(", "MIN(", "MAX(">>

agg_functions == <<"COUNT(", "SUM(", "AVG(", "MIN(", "MAX(", "GROUP BY">>

has_aggregation(parsed) ==
    LET sql_str == StrUpper(NodeSql(parsed, FALSE))
    IN  \E i \in DOMAIN agg_functions : Contains(sql_str, agg_functions[i])

\* str.rstrip(";")
RStripSemicolon(s) ==
    LET keep == { i \in 1..Len(s) : Char(s, i) # ";" }
    IN  IF keep = {} THEN "" ELSE SubSeq(s, 1, MaxOf(keep))

\* _apply_guardrails on the text and its parse
AddLimit(text, p) ==
    IF p.status # "ok" THEN text
    ELSE IF ~has_limit(p.node) /\ ~has_aggregation(p.node)
    THEN RStripSemicolon(text) \o " LIMIT " \o ToString(default_limit)
    ELSE text

apply_guardrails(text) == AddLimit(text, parse_one(text))

\* validate: a mutation that runs gate 3 before gate 2
FirstFailure_kind_first(e1, e2, e3, final_sql) ==
    IF e1 # NoError THEN [ok |-> FALSE, gate |-> "syntax", sql |-> "", error |-> e1]
    ELSE IF e3 # NoError THEN [ok |-> FALSE, gate |-> "read_only", sql |-> "", error |-> e3]
    ELSE IF e2 # NoError THEN [ok |-> FALSE, gate |-> "blocked", sql |-> "", error |-> e2]
    ELSE [ok |-> TRUE, gate |-> "none", sql |-> final_sql, error |-> NoError]

\* validate, statement by statement: the first gate that raises ends it; e1,
\* e2, e3 are what the gates raise (NoError: nothing), gate names the one
\* that did
FirstFailure(e1, e2, e3, final_sql) ==
    IF e1 # NoError THEN [ok |-> FALSE, gate |-> "syntax", sql |-> "", error |-> e1]
    ELSE IF e2 # NoError THEN [ok |-> FALSE, gate |-> "blocked", sql |-> "", error |-> e2]
    ELSE IF e3 # NoError THEN [ok |-> FALSE, gate |-> "read_only", sql |-> "", error |-> e3]
    ELSE [ok |-> TRUE, gate |-> "none", sql |-> final_sql, error |-> NoError]

ValidateParsed(text, p) ==
    FirstFailure(validate_syntax(text, p), check_blocked_operations(text),
                 ensure_read_only(p), apply_guardrails(format_sql(text, p)))

\* validate: [ok |-> TRUE, sql |-> final_sql] or [ok |-> FALSE, error |-> e]
validate(text) == ValidateParsed(text, parse_one(text))

(***************************************************************************)
(* Cleaning of the generator's response                                    *)
(* (_generate_sql_with_llm, _correct_sql_with_llm).                        *)
(***************************************************************************)
\* str.strip()
Strip(s) ==
    LET keep == { i \in 1..Len(s) : Char(s, i) \notin WhitespaceChars }
    IN  IF keep = {} THEN "" ELSE SubSeq(s, MinOf(keep), MaxOf(keep))

\* str.replace(old, ""): the occurrences of old are removed from left to right
Remove(s, old) ==
    LET rm[i \in 1..(Len(s) + 1)] ==
            IF i > Len(s) THEN ""
            ELSE IF i + Len(old) - 1 <= Len(s) /\ SubSeq(s, i, i + Len(old) - 1) = old
            THEN rm[i + Len(old)]
            ELSE Char(s, i) \o rm[i + 1]
    IN  rm[1]

\* the grave accent, which a TLA+ string cannot hold, is written ~
Backtick == "~"
Fence == Backtick \o Backtick \o Backtick
FenceSql == Fence \o "sql"

\* response.content.strip() followed by the markdown cleaning
CleanResponse(content) ==
    LET text == Strip(content)
    IN  IF StartsWith(text, FenceSql) THEN Strip(Remove(Remove(text, FenceSql), Fence))
        ELSE IF StartsWith(text, Fence) THEN Strip(Remove(text, Fence))
        ELSE text

(***************************************************************************)
(* Result values: a list, a dict (keys in insertion order) or a leaf.      *)
(***************************************************************************)
PyList(items) == [t |-> "list", items |-> items]
PyDict(keys, vals) == [t |-> "dict", keys |-> keys, vals |-> vals]
\* Decimal(unscaled * 10^-scale)
PyDecimal(unscaled, scale) == [t |-> "Decimal", unscaled |-> unscaled, scale |-> scale]
PyStr(v) == [t |-> "str", v |-> v]
PyInt(v) == [t |-> "int", v |-> v]

RECURSIVE Gcd(_, _)
Gcd(a, b) == IF b = 0 THEN a ELSE Gcd(b, a % b)

RECURSIVE Pow10(_)
Pow10(n) == IF n = 0 THEN 1 ELSE 10 * Pow10(n - 1)

\* float(Decimal): the value as a reduced fraction
DecimalToFloat(d) ==
    LET den == Pow10(d.scale)
        g   == Gcd(IF d.unscaled < 0 THEN -d.unscaled ELSE d.unscaled, den)
    IN  [t |-> "float", num |-> d.unscaled \div g, den |-> den \div g]

\* the conversion without the recursion: a Decimal, or the Decimals that are
\* directly inside a dict or a list
convert_decimals_to_float_shallow(data) ==
    LET leaf(v) == IF v.t = "Decimal" THEN DecimalToFloat(v) ELSE v
    IN  IF data.t = "dict"
        THEN PyDict(data.keys, [i \in 1..Len(data.vals) |-> leaf(data.vals[i])])
        ELSE IF data.t = "list"
        THEN PyList([i \in 1..Len(data.items) |-> leaf(data.items[i])])
        ELSE leaf(data)

RECURSIVE convert_decimals_to_float(_)
convert_decimals_to_float(data) ==
    IF data.t = "Decimal" THEN DecimalToFloat(data)
    ELSE IF data.t = "dict"
    THEN PyDict(data.keys,
                [i \in 1..Len(data.vals) |-> convert_decimals_to_float(data.vals[i])])
    ELSE IF data.t = "list"
    THEN PyList([i \in 1..Len(data.items) |-> convert_decimals_to_float(data.items[i])])
    ELSE data

(***************************************************************************)
(* The environment: what the generator answers, what the database does.    *)
(***************************************************************************)
Questions == {"Qual a taxa de inadimplencia por UF?", "Delete everything"}

\* contents of the generator's responses
Responses ==
    { "select * from t",
      FenceSql \o "\nSELECT COUNT(*) FROM t\n" \o Fence,
      "Here is the query:\n" \o FenceSql \o "\nSELECT * FROM t\n" \o Fence,
      "DROP TABLE t",
      "SELECT * FROM t; drop table t; --",
      "COMMIT",
      "" }

GeneratorErrors == { [type |-> "APIConnectionError", msg |-> "Connection error."] }

ConnectErrors == { [type |-> "OperationalError", msg |-> "connection refused"] }

ExecutionErrors ==
    { [type |-> "OperationalError", msg |-> "canceling statement due to statement timeout"],
      [type |-> "ProgrammingError", msg |-> "column \"uf\" does not exist"] }

Rows ==
    { PyDict(<<"UF", "taxa">>, <<PyStr("SP"), PyDecimal(850, 4)>>),
      PyDict(<<"total">>, <<PyInt(7)>>) }

\* CleanResponse and validate on the texts of the model, evaluated once
Cleaned == [c \in Responses |-> CleanResponse(c)]
Statements == Responses \cup { Cleaned[c] : c \in Responses }
Validated == [s \in Statements |-> validate(s)]

\* n rows, each with its number and a Decimal
NumberedRows(n) ==
    PyList([i \in 1..n |-> PyDict(<<"id", "valor">>, <<PyInt(i), PyDecimal(i, 2)>>)])

\* row counts around the two caps of the result
LongRowCounts == {11, 99, 100, 101}

\* the row lists an execution can return
RowSets ==
    { PyList(q) : q \in UNION { [1..k -> Rows] : k \in 0..MaxRows } }
        \cup { NumberedRows(n) : n \in LongRowCounts }


(***************************************************************************)
(* sql_validator.validate called on its own, as tests/unit/                *)
(* test_sql_validator.py does, on statements built around each keyword of  *)
(* blocked_ops.                                                            *)
(***************************************************************************)
\* a well-formed statement whose root is the operation K
DeniedStatement(K) ==
    CASE K = "DROP" -> "DROP TABLE t"
      [] K = "DELETE" -> "DELETE FROM t"
      [] K = "UPDATE" -> "UPDATE t SET a = 1"
      [] K = "INSERT" -> "INSERT INTO t VALUES (1)"
      [] K = "CREATE" -> "CREATE TABLE t (a int)"
      [] K = "ALTER" -> "ALTER TABLE t ADD COLUMN a int"
      [] K = "TRUNCATE" -> "TRUNCATE TABLE t"
      [] K = "GRANT" -> "GRANT ALL ON t TO u"
      [] K = "REVOKE" -> "REVOKE ALL ON t FROM u"

\* str.capitalize()
Capitalize(s) ==
    IF s = "" THEN "" ELSE StrUpper(SubSeq(s, 1, 1)) \o StrLower(SubSeq(s, 2, Len(s)))

Casings(s) == {StrUpper(s), StrLower(s), Capitalize(s)}

\* the statements built around the keyword K
KeywordInputs(K) ==
    UNION { { stmt,
              "SELECT * FROM t; " \o stmt \o "; --",
              "select a from t where b = 1;" \o stmt }
            : stmt \in Casings(DeniedStatement(K)) }
    \cup UNION { { "SELECT " \o k \o "PED_FLAG FROM t",
                   "SELECT my_" \o k \o " FROM t",
                   "SELECT x" \o k \o "2 FROM t LIMIT 5",
                   "SELECT '" \o k \o "' FROM t",
                   "SELECT (" \o k \o " FROM t",
                   "SELECT '" \o k }
                 : k \in Casings(K) }

PlainInputs ==
    { "", " ", "\n", "  \n\t ",
      "select * from t", "SELECT * FROM t;", "SELECT * FROM t LIMIT 5",
      "SELECT a, b FROM t WHERE a = 1", "SELECT COUNT(*) FROM t",
      "SELECT uf FROM t GROUP BY uf",
      "SELECT a FROM t UNION SELECT b FROM u",
      "WITH c AS (SELECT a FROM t) SELECT a FROM c",
      "COMMIT", "commit;", "ROLLBACK", "rollback", "SHOW search_path", "show x", "foo", "'x'",
      "SELECT * FROM t WHERE x = 'v'; DROP TABLE t; --",
      "SELECT * FROM t; COMMIT", "COMMIT; SELECT * FROM t", "'abc'", "SELECT (", "SELECT 'abc", ";" }

\* row limits a statement may carry itself: below, at and above the default
LimitValues == {0, 1, 5, 100, 101, 5000}

Unlimited ==
    { "SELECT * FROM t", "select a, b from t where a = 1",
      "SELECT a FROM t UNION SELECT b FROM u",
      "WITH c AS (SELECT a FROM t) SELECT a FROM c",
      "SELECT uf FROM t GROUP BY uf", "SELECT SUM(a) FROM t" }

\* statements with a limit of their own, with and without the closing ";"
LimitInputs ==
    { base \o lim \o ToString(n) \o semi :
          base \in Unlimited, lim \in {" LIMIT ", " limit "},
          n \in LimitValues, semi \in {"", ";"} }

AggregateCalls == <<"count", "sum", "avg", "min", "max">>

\* statements that aggregate: one call of each aggregate, or a GROUP BY
AggregateInputs ==
    UNION { { "SELECT " \o f \o "(a) FROM t",
              "select uf, " \o f \o "(a) from t group by uf",
              "SELECT " \o f \o "(a) FROM t WHERE b = 1;" } :
            f \in UNION { Casings(AggregateCalls[i]) : i \in DOMAIN AggregateCalls } }
      \cup { "SELECT uf FROM t GROUP BY uf", "select uf from t group by uf;",
             "SELECT a, b FROM t WHERE a = 1 GROUP BY a, b" }

\* statements that do not aggregate, some with names or literals that spell
\* part of an aggregate
PlainSelects ==
    { "SELECT * FROM t", "SELECT a FROM t WHERE b = 2;", "select counter, maxi from t",
      "SELECT sum_total FROM t", "SELECT a FROM t UNION SELECT b FROM u",
      "WITH c AS (SELECT a FROM t) SELECT a FROM c",
      "SELECT discount(a) FROM t", "SELECT a FROM t WHERE b = 'GROUP BY'",
      "SELECT lower(a) FROM t", "SELECT * FROM t; COMMIT" }

\* texts that parse and hold several denied keywords, the first of the
\* denylist not the first in the text
SeveralKeywordInputs ==
    { "DELETE FROM t; DROP TABLE t",
      "SELECT * FROM t; UPDATE t SET a = 1; DELETE FROM t",
      "SELECT * FROM t WHERE a = 'revoke create'",
      "SELECT * FROM t WHERE a = 'grant alter insert'",
      "SELECT * FROM t WHERE a = 'insert alter grant'" }

ValidatorInputs ==
    PlainInputs \cup UNION { KeywordInputs(blocked_ops[i]) : i \in DOMAIN blocked_ops }
        \cup Unlimited \cup LimitInputs \cup AggregateInputs \cup PlainSelects
        \cup SeveralKeywordInputs

VerdictOf == [s \in ValidatorInputs |-> validate(s)]
(***************************************************************************)
(* One request.  It enters through the tool query_database, through        *)
(* _execute_with_retry directly or, as the unit tests do, through          *)
(* sql_validator.validate alone.                                           *)
(*   pc       idle | generating | validating | executing | in_db |         *)
(*            correcting | validate_called | done                          *)
(*   verdict  the outcome of the last call of sql_validator.validate       *)
(*   result   what db_manager.execute_query returned                       *)
(*   calls    the calls made so far, in order (history)                    *)
(***************************************************************************)
VARIABLES pc, entry, question, generated_sql, sql, max_retries, attempt,
          last_error, verdict, validated_sql, result, loop, tool_result,
          checked_out, calls, guardrails, pool

vars == <<pc, entry, question, generated_sql, sql, max_retries, attempt,
          last_error, verdict, validated_sql, result, loop, tool_result,
          checked_out, calls, guardrails, pool>>

\* DatabaseConfig.statement_timeout, in milliseconds
statement_timeout == 10000

\* GuardrailsConfig with MAX_RETRY_ATTEMPTS set to n and the other fields at
\* their defaults
GuardrailsConfig(n) ==
    [default_limit |-> default_limit,
     blocked_operations |-> blocked_operations,
     max_retry_attempts |-> n]

\* create_engine: a QueuePool that opens its connections on demand
EmptyPool == [idle |-> <<>>, busy |-> <<>>]

\* a connection opened with connect_args options "-c statement_timeout=...":
\* the session value, the value at the start of the current transaction, and
\* the number of statements the connection has run
NewConnection ==
    [statement_timeout |-> statement_timeout, begin |-> statement_timeout, statements |-> 0]

\* the values a statement may leave in the session it runs in
SessionTimeouts == {statement_timeout, 0}

\* engine.connect(): an idle connection of the pool, or a new one; a
\* transaction begins on it
Connect(p) ==
    IF p.idle = <<>>
    THEN [p EXCEPT !.busy = Append(@, NewConnection)]
    ELSE [idle |-> Tail(p.idle),
          busy |-> Append(p.busy, [Head(p.idle) EXCEPT
                                       !.begin = Head(p.idle).statement_timeout])]

\* conn.close() without the pool's reset: the session keeps the value t the
\* statement left
Close_no_reset(p, t) ==
    [idle |-> Append(p.idle, [statement_timeout |-> t, begin |-> t,
                              statements |-> p.busy[Len(p.busy)].statements + 1]),
     busy |-> SubSeq(p.busy, 1, Len(p.busy) - 1)]

\* conn.execute(text(sql)) left the session value at t; conn.close() in the
\* finally returns the connection to the pool, which rolls the open
\* transaction back: the session value is the one at its begin
Close(p, t) ==
    [idle |-> Append(p.idle, [p.busy[Len(p.busy)] EXCEPT
                                 !.statement_timeout = p.busy[Len(p.busy)].begin,
                                 !.statements = @ + 1]),
     busy |-> SubSeq(p.busy, 1, Len(p.busy) - 1)]

\* default of the parameter max_retries of _execute_with_retry
default_max_retries == 3
\* rows kept in the artifact, rows shown in the message
artifact_rows == 100
preview_rows == 10

\* the slice that is not cut
Min_uncut(a, b) == b

Min(a, b) == IF a < b THEN a ELSE b

NoRows == PyList(<<>>)
NoVerdict == [ok |-> FALSE, gate |-> "pending", sql |-> "", error |-> NoError]
LoopNone == [kind |-> "none", rows |-> NoRows, error |-> NoError]
LoopRaised(e) == [kind |-> "raised", rows |-> NoRows, error |-> e]

\* return result: a mutation that converts the rows inside the loop
LoopRows_converted(rows) ==
    [kind |-> "rows", rows |-> convert_decimals_to_float(rows), error |-> NoError]

\* return result
LoopRows(rows) == [kind |-> "rows", rows |-> rows, error |-> NoError]

ToolNone == [kind |-> "none"]

\* the entry of calls for one call:
\*   validate        sql: the text validated, out: the text returned, ok: accepted
\*   execute         sql: the text handed to db_manager.execute_query
\*   fail            msg: str(e) of the exception the attempt caught
\*   correct         sql, msg, q: the arguments of _correct_sql_with_llm
\*   correct_raised  msg: str(e) of the exception _correct_sql_with_llm raised
Call(op, att, text, out, ok, msg, q) ==
    [op |-> op, attempt |-> att, sql |-> text, out |-> out, ok |-> ok, msg |-> msg, q |-> q]

\* a range that includes its end
InRange_inclusive(i, n) == i <= n

\* for attempt in range(max_retries)
InRange(i, n) == i < n

\* if attempt == max_retries - 1
LastAttempt(i, n) == i = n - 1

\* last_error = e: a mutation that keeps the first error
NewLastError_first(old, e) == IF old = NoError THEN e ELSE old

\* last_error = e
NewLastError(old, e) == e

\* the argument of db_manager.execute_query: a mutation that passes the
\* statement the validator was given
ExecutedText_raw == sql

\* the argument of db_manager.execute_query
ExecutedText == validated_sql

\* the exception raised after the loop
AggregatedMessage(n, e) ==
    "Falha após " \o ToString(n) \o " tentativas. Último erro: " \o e.msg
RetryExhausted(n, e) == [type |-> "Exception", msg |-> AggregatedMessage(n, e)]

\* query_database, except branch
ToolError(e, gen) ==
    [kind |-> "error",
     message |-> "Erro ao processar consulta: " \o e.msg,
     metadata |-> [error |-> e.msg, sql |-> gen]]

\* query_database, steps 3 to 5
ToolSuccess(gen, rows) ==
    LET converted == convert_decimals_to_float(rows)
        n == Len(rows.items)
    IN  [kind |-> "ok",
         message |-> [head |-> "Query executada com sucesso.",
                      sql |-> gen,
                      row_count |-> n,
                      data_preview |-> IF Len(converted.items) > preview_rows
                                       THEN SubSeq(converted.items, 1, preview_rows)
                                       ELSE converted.items,
                      more |-> Len(converted.items) > preview_rows],
         metadata |-> [sql |-> gen,
                       data |-> SubSeq(converted.items, 1, Min(artifact_rows, n)),
                       row_count |-> n,
                       truncated |-> n > artifact_rows]]

\* the module is imported: db_manager has an engine with an empty pool, no
\* request is running
Started ==
    /\ pc = "idle"
    /\ entry = "none"
    /\ question = ""
    /\ generated_sql = <<>>
    /\ sql = ""
    /\ max_retries = 0
    /\ attempt = 0
    /\ last_error = NoError
    /\ verdict = NoVerdict
    /\ validated_sql = ""
    /\ result = NoRows
    /\ loop = LoopNone
    /\ tool_result = ToolNone
    /\ checked_out = 0
    /\ calls = <<>>
    /\ pool = EmptyPool

\* config = Config() with no MAX_RETRY_ATTEMPTS in the environment
Init ==
    /\ Started
    /\ guardrails = GuardrailsConfig(max_retry_attempts)

\* config = Config() with MAX_RETRY_ATTEMPTS set in the environment
ConfigInit ==
    /\ Started
    /\ \E n \in 1..MaxRetriesBound : guardrails = GuardrailsConfig(n)

\* an exception e leaves _execute_with_retry and query_database too: the
\* except branch of query_database left out
LoopRaises_propagates(e, ent, gen) ==
    /\ loop' = LoopRaised(e)
    /\ pc' = "done"
    /\ UNCHANGED tool_result

\* an exception e leaves _execute_with_retry; query_database catches it
LoopRaises(e, ent, gen) ==
    /\ loop' = LoopRaised(e)
    /\ pc' = "done"
    /\ tool_result' = IF ent = "tool" THEN ToolError(e, gen) ELSE tool_result

\* _execute_with_retry is entered: last_error = None, then the for loop
EnterLoop(s, n, ent, gen) ==
    /\ sql' = s
    /\ max_retries' = n
    /\ attempt' = 0
    /\ last_error' = NoError
    /\ IF InRange(0, n)
       THEN pc' = "validating" /\ UNCHANGED <<loop, tool_result>>
       ELSE LoopRaises(RetryExhausted(n, NoError), ent, gen)

\* the except branch handing the correction the statement as the validator
\* last rewrote it, not the statement of the attempt
HandleFailure_rewritten(e, log) ==
    /\ last_error' = NewLastError(last_error, e)
    /\ IF LastAttempt(attempt, max_retries)
       THEN /\ calls' = Append(log, Call("fail", attempt, sql, "", FALSE, e.msg, question))
            /\ LoopRaises(RetryExhausted(max_retries, last_error'), entry, generated_sql)
       ELSE /\ calls' = log \o <<Call("fail", attempt, sql, "", FALSE, e.msg, question),
                                 Call("correct", attempt, validated_sql, "", FALSE, e.msg,
                                      question)>>
            /\ pc' = "correcting"
            /\ UNCHANGED <<loop, tool_result>>

\* the except branch of the attempt, entered with exception e; log holds the
\* calls up to the failure
HandleFailure(e, log) ==
    /\ last_error' = NewLastError(last_error, e)
    /\ IF LastAttempt(attempt, max_retries)
       THEN /\ calls' = Append(log, Call("fail", attempt, sql, "", FALSE, e.msg, question))
            /\ LoopRaises(RetryExhausted(max_retries, last_error'), entry, generated_sql)
       ELSE /\ calls' = log \o <<Call("fail", attempt, sql, "", FALSE, e.msg, question),
                                 Call("correct", attempt, sql, "", FALSE, e.msg, question)>>
            /\ pc' = "correcting"
            /\ UNCHANGED <<loop, tool_result>>

\* query_database is invoked with a question
QueryDatabase(q) ==
    /\ pc = "idle"
    /\ pc' = "generating"
    /\ entry' = "tool"
    /\ question' = q
    /\ UNCHANGED <<generated_sql, sql, max_retries, attempt, last_error, verdict,
                   validated_sql, result, loop, tool_result, checked_out, calls>>
    /\ UNCHANGED <<guardrails, pool>>

\* _generate_sql_with_llm returns; query_database calls _execute_with_retry
GenerateReturns(content) ==
    /\ pc = "generating"
    /\ generated_sql' = <<Cleaned[content]>>
    /\ EnterLoop(Cleaned[content], default_max_retries, entry, <<Cleaned[content]>>)
    /\ UNCHANGED <<entry, question, verdict, validated_sql, result, checked_out, calls>>
    /\ UNCHANGED <<guardrails, pool>>

\* _generate_sql_with_llm raises; query_database has no sql yet
GenerateRaises(e) ==
    /\ pc = "generating"
    /\ pc' = "done"
    /\ tool_result' = ToolError(e, <<>>)
    /\ UNCHANGED <<entry, question, generated_sql, sql, max_retries, attempt, last_error,
                   verdict, validated_sql, result, loop, checked_out, calls>>
    /\ UNCHANGED <<guardrails, pool>>

\* _execute_with_retry is called directly
CallExecuteWithRetry(s, q, n) ==
    /\ pc = "idle"
    /\ entry' = "direct"
    /\ question' = q
    /\ EnterLoop(s, n, "direct", <<>>)
    /\ UNCHANGED <<generated_sql, verdict, validated_sql, result, checked_out, calls>>
    /\ UNCHANGED <<guardrails, pool>>

\* sql_validator.validate(sql) of the attempt
Validate ==
    /\ pc = "validating"
    /\ LET v == Validated[sql]
           log == Append(calls, Call("validate", attempt, sql, v.sql, v.ok, v.error.msg, question))
       IN  /\ verdict' = v
           /\ IF v.ok
              THEN /\ validated_sql' = v.sql
                   /\ pc' = "executing"
                   /\ calls' = log
                   /\ UNCHANGED <<last_error, loop, tool_result>>
              ELSE /\ HandleFailure(v.error, log)
                   /\ UNCHANGED validated_sql
    /\ UNCHANGED <<entry, question, generated_sql, sql, max_retries, attempt, result,
                   checked_out>>
    /\ UNCHANGED <<guardrails, pool>>

\* db_manager.execute_query(validated_sql): the connection is checked out
ExecuteConnect ==
    /\ pc = "executing"
    /\ pc' = "in_db"
    /\ checked_out' = checked_out + 1
    /\ pool' = Connect(pool)
    /\ calls' = Append(calls, Call("execute", attempt, ExecutedText, "", TRUE, "", question))
    /\ UNCHANGED <<entry, question, generated_sql, sql, max_retries, attempt, last_error,
                   verdict, validated_sql, result, loop, tool_result>>
    /\ UNCHANGED guardrails

\* db_manager.execute_query(validated_sql): engine.connect() raises
ExecuteConnectRaises(e) ==
    /\ pc = "executing"
    /\ HandleFailure(e, Append(calls, Call("execute", attempt, ExecutedText, "", FALSE, "", question)))
    /\ UNCHANGED <<entry, question, generated_sql, sql, max_retries, attempt, verdict,
                   validated_sql, result, checked_out>>
    /\ UNCHANGED <<guardrails, pool>>

\* the statement succeeds: the connection is closed, the rows are returned
ExecuteReturns(rows) ==
    /\ pc = "in_db"
    /\ checked_out' = checked_out - 1
    /\ \E t \in SessionTimeouts : pool' = Close(pool, t)
    /\ result' = rows
    /\ loop' = LoopRows(rows)
    /\ pc' = "done"
    /\ tool_result' = IF entry = "tool" THEN ToolSuccess(generated_sql[1], loop'.rows)
                      ELSE tool_result
    /\ UNCHANGED <<entry, question, generated_sql, sql, max_retries, attempt, last_error,
                   verdict, validated_sql, calls>>
    /\ UNCHANGED guardrails

\* the statement fails and the connection is closed on success only: the
\* finally of get_connection left out
ExecuteRaises_leak(e) ==
    /\ pc = "in_db"
    /\ HandleFailure(e, calls)
    /\ UNCHANGED <<entry, question, generated_sql, sql, max_retries, attempt, verdict,
                   validated_sql, result, checked_out>>
    /\ UNCHANGED <<guardrails, pool>>

\* the statement fails: the connection is closed, the exception is caught
ExecuteRaises(e) ==
    /\ pc = "in_db"
    /\ checked_out' = checked_out - 1
    /\ \E t \in SessionTimeouts : pool' = Close(pool, t)
    /\ HandleFailure(e, calls)
    /\ UNCHANGED <<entry, question, generated_sql, sql, max_retries, attempt, verdict,
                   validated_sql, result>>
    /\ UNCHANGED guardrails

\* _correct_sql_with_llm returns inside the except branch: a mutation that
\* starts the next cycle without advancing attempt
CorrectReturns_same_attempt(content) ==
    /\ pc = "correcting"
    /\ sql' = Cleaned[content]
    /\ pc' = "validating"
    /\ UNCHANGED <<entry, question, generated_sql, max_retries, attempt, last_error, verdict,
                   validated_sql, result, loop, tool_result, checked_out, calls>>
    /\ UNCHANGED <<guardrails, pool>>

\* _correct_sql_with_llm returns inside the except branch; the for loop takes
\* the next attempt, or ends and the aggregated exception is raised
CorrectReturns(content) ==
    /\ pc = "correcting"
    /\ sql' = Cleaned[content]
    /\ IF InRange(attempt + 1, max_retries)
       THEN /\ attempt' = attempt + 1
            /\ pc' = "validating"
            /\ UNCHANGED <<loop, tool_result>>
       ELSE /\ LoopRaises(RetryExhausted(max_retries, last_error), entry, generated_sql)
            /\ UNCHANGED attempt
    /\ UNCHANGED <<entry, question, generated_sql, max_retries, last_error, verdict,
                   validated_sql, result, checked_out, calls>>
    /\ UNCHANGED <<guardrails, pool>>

\* _correct_sql_with_llm raises inside the except branch: nothing catches e
\* before it leaves _execute_with_retry
CorrectRaises(e) ==
    /\ pc = "correcting"
    /\ calls' = Append(calls, Call("correct_raised", attempt, sql, "", FALSE, e.msg, question))
    /\ LoopRaises(e, entry, generated_sql)
    /\ UNCHANGED <<entry, question, generated_sql, sql, max_retries, attempt, last_error,
                   verdict, validated_sql, result, checked_out>>
    /\ UNCHANGED <<guardrails, pool>>

Next ==
    \/ \E q \in Questions : QueryDatabase(q)
    \/ \E c \in Responses : GenerateReturns(c)
    \/ \E e \in GeneratorErrors : GenerateRaises(e)
    \/ \E s \in Responses, q \in Questions, n \in -1..MaxRetriesBound :
           CallExecuteWithRetry(s, q, n)
    \/ Validate
    \/ ExecuteConnect
    \/ \E e \in ConnectErrors : ExecuteConnectRaises(e)
    \/ \E rows \in RowSets : ExecuteReturns(rows)
    \/ \E e \in ExecutionErrors : ExecuteRaises(e)
    \/ \E c \in Responses : CorrectReturns(c)
    \/ \E e \in GeneratorErrors : CorrectRaises(e)

Spec == Init /\ [][Next]_vars

\* the steps of requests that enter through the query_database tool
ToolNext ==
    \/ \E q \in Questions : QueryDatabase(q)
    \/ \E c \in Responses : GenerateReturns(c)
    \/ \E e \in GeneratorErrors : GenerateRaises(e)
    \/ Validate
    \/ ExecuteConnect
    \/ \E e \in ConnectErrors : ExecuteConnectRaises(e)
    \/ \E rows \in RowSets : ExecuteReturns(rows)
    \/ \E e \in ExecutionErrors : ExecuteRaises(e)
    \/ \E c \in Responses : CorrectReturns(c)
    \/ \E e \in GeneratorErrors : CorrectRaises(e)

\* query_database under every configured MAX_RETRY_ATTEMPTS
ToolSpec == ConfigInit /\ [][ToolNext]_vars

\* ---- two requests running _execute_with_retry at the same time ----

Requests == {1, 2}

\* what the generator answers and what the database returns to them
ConcurrentResponses == {"select * from t", "DROP TABLE t"}
ConcurrentBudgets == 0..(MaxRetriesBound - 1)
ConcurrentRows == {NoRows, NumberedRows(11)}

\* an assignment to a module-level name: every request sees the value
Own_shared(f, r, value) == [x \in DOMAIN f |-> value]

\* an assignment to a local name of the call of request r
Own(f, r, value) == [f EXCEPT ![r] = value]

\* _execute_with_retry run alone: the outcome of the loop for the statement
\* text, the budget n, from attempt i with last error last, when the database
\* and the generator answer with the responses h, in this order
RECURSIVE Replay(_, _, _, _, _)
Replay(text, n, i, last, h) ==
    IF ~InRange(i, n) THEN LoopRaised(RetryExhausted(n, last))
    ELSE LET v == Validated[text]
             e == IF v.ok THEN h[1].error ELSE v.error
             rest == IF v.ok THEN Tail(h) ELSE h
         IN  IF v.ok /\ h[1].ok THEN LoopRows(h[1].rows)
             ELSE IF LastAttempt(i, n)
                  THEN LoopRaised(RetryExhausted(n, NewLastError(last, e)))
             ELSE IF ~rest[1].ok THEN LoopRaised(rest[1].error)
             ELSE Replay(Cleaned[rest[1].content], n, i + 1, NewLastError(last, e),
                         Tail(rest))

\* the process has started, no request has arrived: the locals of both calls
\* are unset, calls[r] is what request r was called with and was answered
ConcurrentInit ==
    /\ pc = [r \in Requests |-> "idle"]
    /\ entry = "direct"
    /\ question = ""
    /\ generated_sql = <<>>
    /\ sql = [r \in Requests |-> ""]
    /\ max_retries = [r \in Requests |-> 0]
    /\ attempt = [r \in Requests |-> 0]
    /\ last_error = [r \in Requests |-> NoError]
    /\ verdict = NoVerdict
    /\ validated_sql = [r \in Requests |-> ""]
    /\ result = NoRows
    /\ loop = [r \in Requests |-> LoopNone]
    /\ tool_result = ToolNone
    /\ checked_out = 0
    /\ calls = [r \in Requests |-> <<>>]
    /\ guardrails = GuardrailsConfig(max_retry_attempts)
    /\ pool = EmptyPool

\* request r leaves the loop with the exception e
RaisesOf(r, e) ==
    /\ loop' = Own(loop, r, LoopRaised(e))
    /\ pc' = [pc EXCEPT ![r] = "done"]

\* the except branch of request r
FailureOf(r, e) ==
    /\ last_error' = Own(last_error, r, NewLastError(last_error[r], e))
    /\ IF LastAttempt(attempt[r], max_retries[r])
       THEN RaisesOf(r, RetryExhausted(max_retries[r], NewLastError(last_error[r], e)))
       ELSE pc' = [pc EXCEPT ![r] = "correcting"] /\ UNCHANGED loop

\* request r calls _execute_with_retry(s, question, n)
Begin(r, s, n) ==
    /\ pc[r] = "idle"
    /\ sql' = Own(sql, r, s)
    /\ max_retries' = Own(max_retries, r, n)
    /\ attempt' = Own(attempt, r, 0)
    /\ last_error' = Own(last_error, r, NoError)
    /\ calls' = [calls EXCEPT ![r] = <<[op |-> "call", sql |-> s, max_retries |-> n]>>]
    /\ IF InRange(0, n)
       THEN pc' = [pc EXCEPT ![r] = "validating"] /\ UNCHANGED loop
       ELSE RaisesOf(r, RetryExhausted(n, NoError))
    /\ UNCHANGED <<entry, question, generated_sql, verdict, validated_sql, result,
                   tool_result, checked_out, guardrails, pool>>

\* request r: sql_validator.validate(sql)
ValidateOf(r) ==
    /\ pc[r] = "validating"
    /\ IF Validated[sql[r]].ok
       THEN /\ validated_sql' = Own(validated_sql, r, Validated[sql[r]].sql)
            /\ pc' = [pc EXCEPT ![r] = "executing"]
            /\ UNCHANGED <<last_error, loop>>
       ELSE /\ FailureOf(r, Validated[sql[r]].error)
            /\ UNCHANGED validated_sql
    /\ UNCHANGED <<entry, question, generated_sql, sql, max_retries, attempt, verdict,
                   result, tool_result, checked_out, calls, guardrails, pool>>

\* request r: engine.connect() hands out a connection
ConnectOf(r) ==
    /\ pc[r] = "executing"
    /\ pc' = [pc EXCEPT ![r] = "in_db"]
    /\ checked_out' = checked_out + 1
    /\ pool' = Connect(pool)
    /\ UNCHANGED <<entry, question, generated_sql, sql, max_retries, attempt, last_error,
                   verdict, validated_sql, result, loop, tool_result, calls, guardrails>>

\* request r: engine.connect() raises
ConnectRaisesOf(r, e) ==
    /\ pc[r] = "executing"
    /\ FailureOf(r, e)
    /\ calls' = [calls EXCEPT ![r] = Append(@, [op |-> "execute", ok |-> FALSE,
                                               error |-> e, rows |-> NoRows])]
    /\ UNCHANGED <<entry, question, generated_sql, sql, max_retries, attempt, verdict,
                   validated_sql, result, tool_result, checked_out, guardrails, pool>>

\* request r: the statement succeeds, the connection is closed
ExecuteReturnsOf(r, rows) ==
    /\ pc[r] = "in_db"
    /\ checked_out' = checked_out - 1
    /\ \E t \in SessionTimeouts : pool' = Close(pool, t)
    /\ loop' = Own(loop, r, LoopRows(rows))
    /\ pc' = [pc EXCEPT ![r] = "done"]
    /\ calls' = [calls EXCEPT ![r] = Append(@, [op |-> "execute", ok |-> TRUE,
                                               error |-> NoError, rows |-> rows])]
    /\ UNCHANGED <<entry, question, generated_sql, sql, max_retries, attempt, last_error,
                   verdict, validated_sql, result, tool_result, guardrails>>

\* request r: the statement fails, the connection is closed
ExecuteRaisesOf(r, e) ==
    /\ pc[r] = "in_db"
    /\ checked_out' = checked_out - 1
    /\ \E t \in SessionTimeouts : pool' = Close(pool, t)
    /\ FailureOf(r, e)
    /\ calls' = [calls EXCEPT ![r] = Append(@, [op |-> "execute", ok |-> FALSE,
                                               error |-> e, rows |-> NoRows])]
    /\ UNCHANGED <<entry, question, generated_sql, sql, max_retries, attempt, verdict,
                   validated_sql, result, tool_result, guardrails>>

\* request r: _correct_sql_with_llm returns
CorrectReturnsOf(r, content) ==
    /\ pc[r] = "correcting"
    /\ sql' = Own(sql, r, Cleaned[content])
    /\ IF InRange(attempt[r] + 1, max_retries[r])
       THEN /\ attempt' = Own(attempt, r, attempt[r] + 1)
            /\ pc' = [pc EXCEPT ![r] = "validating"]
            /\ UNCHANGED loop
       ELSE /\ RaisesOf(r, RetryExhausted(max_retries[r], last_error[r]))
            /\ UNCHANGED attempt
    /\ calls' = [calls EXCEPT ![r] = Append(@, [op |-> "correct", ok |-> TRUE,
                                               error |-> NoError, content |-> content])]
    /\ UNCHANGED <<entry, question, generated_sql, max_retries, last_error, verdict,
                   validated_sql, result, tool_result, checked_out, guardrails, pool>>

\* request r: _correct_sql_with_llm raises
CorrectRaisesOf(r, e) ==
    /\ pc[r] = "correcting"
    /\ RaisesOf(r, e)
    /\ calls' = [calls EXCEPT ![r] = Append(@, [op |-> "correct", ok |-> FALSE,
                                               error |-> e, content |-> ""])]
    /\ UNCHANGED <<entry, question, generated_sql, sql, max_retries, attempt, last_error,
                   verdict, validated_sql, result, tool_result, checked_out, guardrails,
                   pool>>

ConcurrentNext ==
    \E r \in Requests :
        \/ \E s \in ConcurrentResponses, n \in ConcurrentBudgets : Begin(r, s, n)
        \/ ValidateOf(r)
        \/ ConnectOf(r)
        \/ \E e \in ConnectErrors : ConnectRaisesOf(r, e)
        \/ \E rows \in ConcurrentRows : ExecuteReturnsOf(r, rows)
        \/ \E e \in ExecutionErrors : ExecuteRaisesOf(r, e)
        \/ \E c \in ConcurrentResponses : CorrectReturnsOf(r, c)
        \/ \E e \in GeneratorErrors : CorrectRaisesOf(r, e)

ConcurrentSpec == ConcurrentInit /\ [][ConcurrentNext]_vars

\* sql_validator.validate(text) is called
CallValidate(text) ==
    /\ pc = "idle"
    /\ pc' = "validate_called"
    /\ entry' = "validate"
    /\ sql' = text
    /\ UNCHANGED <<question, generated_sql, max_retries, attempt, last_error, verdict,
                   validated_sql, result, loop, tool_result, checked_out, calls>>
    /\ UNCHANGED <<guardrails, pool>>

\* validate returns (True, final_sql) or raises
ValidateReturns ==
    /\ pc = "validate_called"
    /\ pc' = "done"
    /\ verdict' = VerdictOf[sql]
    /\ calls' = Append(calls, Call("validate", 0, sql, verdict'.sql, verdict'.ok,
                                   verdict'.error.msg, ""))
    /\ UNCHANGED <<entry, question, generated_sql, sql, max_retries, attempt, last_error,
                   validated_sql, result, loop, tool_result, checked_out>>
    /\ UNCHANGED <<guardrails, pool>>

\* sql_validator.validate is called again with the same text
ValidateAgain ==
    /\ pc = "done"
    /\ entry = "validate"
    /\ Len(calls) < MaxApplications
    /\ pc' = "validate_called"
    /\ UNCHANGED <<entry, question, generated_sql, sql, max_retries, attempt, last_error,
                   verdict, validated_sql, result, loop, tool_result, checked_out, calls>>
    /\ UNCHANGED <<guardrails, pool>>

ValidatorNext ==
    \/ \E text \in ValidatorInputs : CallValidate(text)
    \/ ValidateReturns
    \/ ValidateAgain

ValidatorSpec == Init /\ [][ValidatorNext]_vars

\* texts handed to _apply_guardrails alone: single statements as written and
\* as formatted, one with a closing line comment, and texts that are no SELECT
GuardrailInputs ==
    Unlimited \cup (PlainSelects \ {"SELECT * FROM t; COMMIT"}) \cup AggregateInputs
        \cup { VerdictOf[s].sql : s \in Unlimited \cup PlainSelects }
        \cup { "SELECT * FROM t LIMIT 5", "select a from t limit 100;",
               "SELECT * FROM t;", "SELECT * FROM t -- note", "SELECT (", "COMMIT", "" }

\* sql_validator._apply_guardrails(text) is called
CallApplyGuardrails(text) ==
    /\ pc = "idle"
    /\ pc' = "guardrails_called"
    /\ entry' = "apply_guardrails"
    /\ sql' = text
    /\ UNCHANGED <<question, generated_sql, max_retries, attempt, last_error, verdict,
                   validated_sql, result, loop, tool_result, checked_out, calls>>
    /\ UNCHANGED <<guardrails, pool>>

\* _apply_guardrails returns the text, with the default limit appended or not
ApplyGuardrailsReturns ==
    /\ pc = "guardrails_called"
    /\ pc' = "guardrails_done"
    /\ validated_sql' = apply_guardrails(sql)
    /\ calls' = Append(calls, Call("apply_guardrails", Len(calls), sql, validated_sql',
                                   TRUE, "", ""))
    /\ UNCHANGED <<entry, question, generated_sql, sql, max_retries, attempt, last_error,
                   verdict, result, loop, tool_result, checked_out>>
    /\ UNCHANGED <<guardrails, pool>>

\* the text returned is handed to _apply_guardrails again
ApplyGuardrailsAgain ==
    /\ pc = "guardrails_done"
    /\ Len(calls) < MaxApplications
    /\ pc' = "guardrails_called"
    /\ sql' = validated_sql
    /\ UNCHANGED <<entry, question, generated_sql, max_retries, attempt, last_error,
                   verdict, validated_sql, result, loop, tool_result, checked_out, calls>>
    /\ UNCHANGED <<guardrails, pool>>

GuardrailNext ==
    \/ \E text \in GuardrailInputs : CallApplyGuardrails(text)
    \/ ApplyGuardrailsReturns
    \/ ApplyGuardrailsAgain

GuardrailSpec == Init /\ [][GuardrailNext]_vars

\* sql_validator._format_sql(text) is called
CallFormatSql(text) ==
    /\ pc = "idle"
    /\ pc' = "format_called"
    /\ entry' = "format_sql"
    /\ sql' = text
    /\ UNCHANGED <<question, generated_sql, max_retries, attempt, last_error, verdict,
                   validated_sql, result, loop, tool_result, checked_out, calls>>
    /\ UNCHANGED <<guardrails, pool>>

\* _format_sql returns the formatted statement, or the text it was given
FormatSqlReturns ==
    /\ pc = "format_called"
    /\ pc' = "done"
    /\ validated_sql' = format_sql(sql, parse_one(sql))
    /\ calls' = Append(calls, Call("format_sql", 0, sql, validated_sql', TRUE, "", ""))
    /\ UNCHANGED <<entry, question, generated_sql, sql, max_retries, attempt, last_error,
                   verdict, result, loop, tool_result, checked_out>>
    /\ UNCHANGED <<guardrails, pool>>

FormatNext ==
    \/ \E text \in GuardrailInputs : CallFormatSql(text)
    \/ FormatSqlReturns

\* validate and its last two steps, each called alone
StepsSpec == Init /\ [][ValidatorNext \/ FormatNext \/ GuardrailNext]_vars

\* leaves inside containers, and further leaves converted on their own
Leaves == {PyDecimal(850, 4), PyInt(7)}
TopLeaves == Leaves \cup {PyStr("SP"), PyDecimal(-15, 1), PyDecimal(3, 0)}

\* column names, in either order
KeySeqs ==
    { q \in UNION { [1..k -> {"taxa", "uf"}] : k \in 0..2 } :
        \A i, j \in DOMAIN q : i # j => q[i] # q[j] }

\* the lists of at most n items and the dicts whose items are drawn from V
Containers(V, n) ==
    { PyList(q) : q \in UNION { [1..k -> V] : k \in 0..n } }
        \cup UNION { { PyDict(ks, q) : q \in [1..Len(ks) -> V] } : ks \in KeySeqs }

\* {"a": [Decimal("1.5"), {"b": Decimal("2.25")}]}
NestedExample ==
    PyDict(<<"a">>, <<PyList(<<PyDecimal(15, 1),
                               PyDict(<<"b">>, <<PyDecimal(225, 2)>>)>>)>>)

\* values handed to the conversion: leaves, containers of leaves, containers
\* of those, and one value nested three deep
Values ==
    TopLeaves \cup Containers(Leaves \cup Containers(Leaves, MaxItems), 2)
        \cup Containers(Leaves, MaxItems) \cup {NestedExample}

\* _convert_decimals_to_float(value) is called
CallConvert(value) ==
    /\ pc = "idle"
    /\ pc' = "convert_called"
    /\ entry' = "convert"
    /\ result' = value
    /\ UNCHANGED <<question, generated_sql, sql, max_retries, attempt, last_error, verdict,
                   validated_sql, loop, tool_result, checked_out, calls>>
    /\ UNCHANGED <<guardrails, pool>>

\* _convert_decimals_to_float returns the converted value
ConvertReturns ==
    /\ pc = "convert_called"
    /\ pc' = "done"
    /\ tool_result' = [kind |-> "converted", data |-> convert_decimals_to_float(result)]
    /\ UNCHANGED <<entry, question, generated_sql, sql, max_retries, attempt, last_error,
                   verdict, validated_sql, result, loop, checked_out, calls>>
    /\ UNCHANGED <<guardrails, pool>>

ConvertNext ==
    \/ \E value \in Values : CallConvert(value)
    \/ ConvertReturns

ConvertSpec == Init /\ [][ConvertNext]_vars

\* the same specification with every enabled step eventually taken: each call
\* of the validator, the database and the generator comes back
FairSpec == Spec /\ WF_vars(Next)

(***************************************************************************)
(* Properties of the retry loop.                                           *)
(***************************************************************************)
\* the positions in calls of the calls of one kind
CallsOf(op) == { i \in DOMAIN calls : calls[i].op = op }

\* the policy's denied operations, as the policy document lists them
DeniedWords ==
    {"drop", "delete", "update", "insert", "create", "alter", "truncate", "grant", "revoke"}

\* word occurs in text as a whole word, in any letter case: a run of letters,
\* digits and underscores with no such character on either side
OccursAsWord(word, text) ==
    \E i \in 1..(Len(text) - Len(word) + 1) :
        LET j == i + Len(word) - 1
        IN  /\ StrLower(SubSeq(text, i, j)) = StrLower(word)
            /\ (i = 1 \/ ~IsWordChar(Char(text, i - 1)))
            /\ (j = Len(text) \/ ~IsWordChar(Char(text, j + 1)))

HasDeniedWord(text) == \E w \in DeniedWords : OccursAsWord(w, text)

DeniedStatements == { s \in Statements : HasDeniedWord(s) }

\* C1: db_manager.execute_query is only called right after the validator
\* accepted the statement of the same attempt, and it is called with exactly
\* the text validate returned for that statement.
ExecutesOnlyValidatedSql ==
    \A i \in CallsOf("execute") :
        /\ i > 1
        /\ calls[i - 1].op = "validate"
        /\ calls[i - 1].ok
        /\ calls[i - 1].attempt = calls[i].attempt
        /\ \A j \in CallsOf("validate") :
               calls[j].attempt = calls[i].attempt => j = i - 1
        /\ calls[i - 1].out = Validated[calls[i - 1].sql].sql
        /\ calls[i].sql = calls[i - 1].out

\* an execution in the second attempt, of a text that differs from the
\* statement the correction returned
ExecutedRewrittenCorrection ==
    \E i \in CallsOf("execute") :
        /\ calls[i].attempt = 1
        /\ calls[i].sql # sql
        /\ calls[i].sql = validated_sql

\* C2: every attempt's statement goes through the denylist: a statement with
\* a denied keyword is rejected by validate in whatever attempt it appears
\* and is never executed; when the generator returns a denied statement on
\* every call, execute_query is never called and query_database returns an
\* error result.
DeniedNeverExecuted ==
    /\ \A j \in CallsOf("validate") : calls[j].sql \in DeniedStatements => ~calls[j].ok
    /\ \A i \in CallsOf("execute"), j \in CallsOf("validate") :
           calls[j].attempt = calls[i].attempt => calls[j].sql \notin DeniedStatements
    /\ ( /\ pc = "done"
         /\ entry = "tool"
         /\ generated_sql # <<>>
         /\ \A j \in CallsOf("validate") : calls[j].sql \in DeniedStatements )
       => /\ CallsOf("execute") = {}
          /\ tool_result.kind = "error"

\* query_database ended after three attempts that all validated a denied
\* statement, one of them stacked behind a SELECT
StubbornDeniedGenerator ==
    /\ pc = "done"
    /\ entry = "tool"
    /\ Cardinality(CallsOf("validate")) = 3
    /\ \A j \in CallsOf("validate") : calls[j].sql \in DeniedStatements
    /\ \E j \in CallsOf("validate") : StartsWith(calls[j].sql, "SELECT")
    /\ tool_result.kind = "error"

\* the cycles of the loop so far never exceed max_retries, and a loop that
\* ended because every attempt failed made exactly max_retries cycles
CyclesBounded ==
    max_retries >= 1 =>
        /\ Cardinality(CallsOf("validate")) <= max_retries
        /\ pc # "done" => Cardinality(CallsOf("validate")) \in {attempt, attempt + 1}
        /\ ( /\ pc = "done"
             /\ loop.kind = "raised"
             /\ CallsOf("correct_raised") = {} )
           => /\ Cardinality(CallsOf("validate")) = max_retries
              /\ Cardinality(CallsOf("fail")) = max_retries
              /\ loop.error.type = "Exception"
              /\ StartsWith(loop.error.msg, "Falha após ")

\* C3: for max_retries >= 1 the loop makes at most max_retries cycles and the
\* request ends; when every attempt fails it makes exactly max_retries cycles
\* and raises the aggregated exception.
LoopTerminates == []CyclesBounded /\ <>(pc = "done")

\* the loop ended after max_retries = 3 failed cycles on one and the same
\* invalid statement
ExhaustedOnSameStatement ==
    /\ pc = "done"
    /\ max_retries = 3
    /\ loop.kind = "raised"
    /\ Cardinality(CallsOf("validate")) = 3
    /\ \A j \in CallsOf("validate") : calls[j].sql = "DROP TABLE t"

\* C4: when a statement is accepted and executes, the loop returns the rows
\* execute_query produced, unchanged, and makes no further call: the number
\* of corrections equals the index of the successful attempt (none when
\* attempt 0 succeeds, one when attempt 0 fails and attempt 1 succeeds).
SuccessReturnsRows ==
    loop.kind = "rows" =>
        /\ pc = "done"
        /\ loop.rows = result
        /\ calls # <<>>
        /\ calls[Len(calls)].op = "execute"
        /\ calls[Len(calls)].attempt = attempt
        /\ Cardinality(CallsOf("validate")) = attempt + 1
        /\ Cardinality(CallsOf("correct")) = attempt
        /\ Cardinality(CallsOf("fail")) = attempt
        /\ Cardinality(CallsOf("validate") \cup CallsOf("execute") \cup CallsOf("fail")
                       \cup CallsOf("correct")) = Len(calls)

\* attempt 0 failed and attempt 1 returned two rows, one holding a Decimal
SucceededAfterOneCorrection ==
    /\ loop.kind = "rows"
    /\ attempt = 1
    /\ Len(loop.rows.items) = 2
    /\ loop.rows # convert_decimals_to_float(loop.rows)

\* C5: when all max_retries attempts fail, one exception is raised whose
\* message names max_retries and the error of the last attempt; the errors of
\* earlier attempts are not in it.
ExhaustedNamesLastError ==
    ( /\ pc = "done"
      /\ max_retries >= 1
      /\ Cardinality(CallsOf("fail")) = max_retries )
    => LET last == CHOOSE i \in CallsOf("fail") : calls[i].attempt = max_retries - 1
       IN  /\ loop.kind = "raised"
           /\ loop.error.type = "Exception"
           /\ loop.error.msg = "Falha após " \o ToString(max_retries)
                                   \o " tentativas. Último erro: " \o calls[last].msg
           /\ \A j \in CallsOf("fail") :
                  calls[j].msg # calls[last].msg => ~Contains(loop.error.msg, calls[j].msg)

\* three attempts failed, the first and the last with different errors
ExhaustedWithDifferentErrors ==
    /\ pc = "done"
    /\ max_retries = 3
    /\ Cardinality(CallsOf("fail")) = 3
    /\ \E i, j \in CallsOf("fail") :
           /\ calls[i].attempt = 0
           /\ calls[j].attempt = 2
           /\ calls[i].msg # calls[j].msg

\* C6: whenever the loop ends without rows, the exception that leaves it is
\* the aggregated one; no error of the validator, the database or the
\* correction call leaves the loop as it was raised.
OnlyAggregatedErrorLeaves ==
    (pc = "done" /\ loop.kind = "raised") =>
        /\ loop.error.type = "Exception"
        /\ loop.error.msg = "Falha após " \o ToString(max_retries)
                                \o " tentativas. Último erro: " \o last_error.msg

(***************************************************************************)
(* Properties of sql_validator.validate.                                   *)
(***************************************************************************)
\* validate has returned or raised on the text sql
ValidateDone == pc = "done" /\ entry = "validate"

SyntaxErrorMessage(msg) ==
    StartsWith(msg, "Erro de sintaxe SQL: ") \/ StartsWith(msg, "Erro ao validar SQL: ")

BlockedErrorMessage(word) ==
    "Operação bloqueada detectada: " \o StrUpper(word)
        \o ". Apenas queries SELECT (read-only) são permitidas."

\* C7: for a statement that parses, a denied keyword that occurs as a whole
\* word, in any letter case and at any position, makes validate raise the
\* blocked-operation error naming a keyword that so occurs; a denied keyword
\* that occurs only inside a longer identifier is never the one named, and
\* without any whole-word occurrence there is no blocked-operation error.
DenylistWholeWord ==
    (ValidateDone /\ parse_one(sql).status = "ok") =>
        /\ HasDeniedWord(sql) =>
               /\ ~verdict.ok
               /\ verdict.error.type = "SQLValidationError"
               /\ \E w \in DeniedWords :
                      OccursAsWord(w, sql) /\ verdict.error.msg = BlockedErrorMessage(w)
        /\ \A w \in DeniedWords :
               ~OccursAsWord(w, sql) => verdict.error.msg # BlockedErrorMessage(w)
        /\ ~HasDeniedWord(sql) => ~StartsWith(verdict.error.msg, "Operação bloqueada")

\* validate raised the blocked-operation error naming DROP on a lower-case
\* drop stacked behind a SELECT
StackedDropRejected ==
    /\ ValidateDone
    /\ sql = "SELECT * FROM t; drop table t; --"
    /\ ~verdict.ok
    /\ verdict.error.msg = BlockedErrorMessage("drop")

\* C8: the gates apply in the order syntax, denylist, statement kind, and the
\* first one that fails decides the error: a text that does not parse gets the
\* syntax error even with a denied keyword in it, and a statement with a
\* denied keyword gets the blocked-operation error even when its root is not
\* an allowed kind.
GateOrder ==
    ValidateDone =>
        LET p == parse_one(sql)
            msg == verdict.error.msg
        IN  /\ p.status # "ok" => ~verdict.ok /\ SyntaxErrorMessage(msg)
            /\ (p.status = "ok" /\ HasDeniedWord(sql)) =>
                   ~verdict.ok /\ StartsWith(msg, "Operação bloqueada detectada: ")
            /\ (p.status = "ok" /\ ~HasDeniedWord(sql) /\ ~verdict.ok) =>
                   StartsWith(msg, "Apenas queries SELECT são permitidas. Tipo detectado: ")

\* validate raised on a statement that has a denied keyword and a root that
\* is not an allowed kind
DeniedRootRejected ==
    /\ ValidateDone
    /\ parse_one(sql).status = "ok"
    /\ HasDeniedWord(sql)
    /\ StrLower(parse_one(sql).node.k) \notin {"select", "with", "union"}
    /\ ~verdict.ok

\* C9: a statement that parses and has no denied keyword is accepted exactly
\* when the key of its root is select, with or union; otherwise validate
\* raises the error that names the key of the root.
KindGate ==
    (ValidateDone /\ parse_one(sql).status = "ok" /\ ~HasDeniedWord(sql)) =>
        LET kind == parse_one(sql).node.k
        IN  /\ verdict.ok <=> StrLower(kind) \in {"select", "with", "union"}
            /\ ~verdict.ok =>
                   /\ verdict.error.type = "SQLValidationError"
                   /\ verdict.error.msg =
                          "Apenas queries SELECT são permitidas. Tipo detectado: "
                              \o StrUpper(kind)

\* validate raised on COMMIT, naming the kind
CommitRejected ==
    /\ ValidateDone
    /\ sql = "COMMIT"
    /\ ~verdict.ok
    /\ verdict.error.msg = "Apenas queries SELECT são permitidas. Tipo detectado: COMMIT"

\* C10: the empty string and every string of blanks, tabs and newlines is
\* rejected by the syntax gate, with the syntax error.
EmptyRejected ==
    (ValidateDone /\ \A i \in 1..Len(sql) : Char(sql, i) \in {" ", "\t", "\n"}) =>
        /\ ~verdict.ok
        /\ verdict.gate = "syntax"
        /\ verdict.error.type = "SQLValidationError"
        /\ StartsWith(verdict.error.msg, "Erro de sintaxe SQL: ")

\* validate raised on a string of blanks, a tab and a newline
WhitespaceRejected ==
    /\ ValidateDone
    /\ sql = "  \n\t "
    /\ ~verdict.ok

\* C11: whenever validate accepts, the SQL it returns, after formatting and
\* the guardrail rewrite, parses, holds no denied keyword as a whole word,
\* and has a root of kind select, with or union.
AcceptedSqlIsSafe ==
    (ValidateDone /\ verdict.ok) =>
        /\ parse_one(verdict.sql).status = "ok"
        /\ StrLower(parse_one(verdict.sql).node.k) \in {"select", "with", "union"}
        /\ ~HasDeniedWord(verdict.sql)

\* validate accepted a statement followed by a second one and returned the
\* first alone, formatted and limited
AcceptedStackedSelect ==
    /\ ValidateDone
    /\ sql = "SELECT * FROM t; COMMIT"
    /\ verdict.ok
    /\ verdict.sql = "SELECT\n  *\nFROM t LIMIT 100"

\* C12: the guardrail rewrite is idempotent: applied to the text it returned
\* for a syntactically valid SELECT, it returns that text unchanged, and so
\* never appends a second limit.
GuardrailIdempotent ==
    \A i \in 2..Len(calls) :
        ( /\ calls[i].op = "apply_guardrails"
          /\ parse_one(calls[1].sql).status = "ok"
          /\ StrLower(parse_one(calls[1].sql).node.k) = "select" ) =>
            calls[i].out = calls[i].sql

EndsWith(text, suffix) ==
    Len(suffix) <= Len(text)
        /\ SubSeq(text, Len(text) - Len(suffix) + 1, Len(text)) = suffix

\* the statement closes with a limit clause of n rows
ExplicitLimit(text, n) ==
    \E lim \in {" LIMIT ", " limit "}, semi \in {"", ";"} :
        EndsWith(text, lim \o ToString(n) \o semi)

\* how many times the word occurs in the text, in any casing
Occurrences(word, text) ==
    Cardinality({ i \in 1..(Len(text) - Len(word) + 1) :
                    SubSeq(StrUpper(text), i, i + Len(word) - 1) = word })

\* C13: when an accepted SELECT carries a limit of n rows of its own, the SQL
\* validate returns closes with a limit of the same n and holds no other
\* limit: n is not replaced by the default and no second limit is appended.
ExplicitLimitKept ==
    \A n \in LimitValues :
        (ValidateDone /\ verdict.ok /\ ExplicitLimit(sql, n)) =>
            /\ EndsWith(verdict.sql, "\nLIMIT " \o ToString(n))
            /\ Occurrences("LIMIT", verdict.sql) = 1

\* validate accepted a statement limited to more rows than the default
AcceptedLargeLimit ==
    /\ ValidateDone
    /\ sql = "SELECT * FROM t limit 5000;"
    /\ verdict.ok
    /\ verdict.sql = "SELECT\n  *\nFROM t\nLIMIT 5000"

\* the statement has a GROUP BY clause
HasGroupBy(text) == Contains(StrUpper(text), " GROUP BY ")

\* the statement calls count, sum, avg, min or max
HasAggregateCall(text) ==
    \E i \in DOMAIN AggregateCalls :
        OccursAsWord(StrUpper(AggregateCalls[i]), text)
            /\ Contains(StrUpper(text), StrUpper(AggregateCalls[i]) \o "(")

\* C14: for an accepted SELECT with a GROUP BY clause or a call of count,
\* sum, avg, min or max, the guardrail rewrite appends no default limit: the
\* SQL returned holds a limit only if the statement carried one.
AggregationNotLimited ==
    (ValidateDone /\ verdict.ok /\ (HasGroupBy(sql) \/ HasAggregateCall(sql))) =>
        /\ ~EndsWith(verdict.sql, " LIMIT " \o ToString(default_limit))
        /\ (\A n \in LimitValues : ~ExplicitLimit(sql, n)) =>
               Occurrences("LIMIT", verdict.sql) = 0

\* validate accepted a grouped average and returned it formatted, unlimited
AcceptedGroupedAverage ==
    /\ ValidateDone
    /\ sql = "select uf, Avg(a) from t group by uf"
    /\ verdict.ok
    /\ verdict.sql = "SELECT\n  uf,\n  AVG(a)\nFROM t\nGROUP BY\n  uf"

\* C15: for an accepted statement with no limit of its own, no GROUP BY
\* clause and no aggregate call, the SQL validate returns closes with a limit
\* clause of the default number of rows.
DefaultLimitAppended ==
    ( /\ ValidateDone
      /\ verdict.ok
      /\ Occurrences("LIMIT", sql) = 0
      /\ ~HasGroupBy(sql)
      /\ ~HasAggregateCall(sql) ) =>
        EndsWith(verdict.sql, " LIMIT " \o ToString(default_limit))

ConvertDone == pc = "done" /\ entry = "convert"

\* b is a with every Decimal replaced by the float of the same value and all
\* else as in a: same containers, same keys in the same order, same length
RECURSIVE Normalized(_, _)
Normalized(a, b) ==
    CASE a.t = "Decimal" ->
           b.t = "float" /\ b.den > 0 /\ b.num * Pow10(a.scale) = a.unscaled * b.den
      [] a.t = "dict" ->
           /\ b.t = "dict"
           /\ b.keys = a.keys
           /\ DOMAIN b.vals = DOMAIN a.vals
           /\ \A i \in DOMAIN a.vals : Normalized(a.vals[i], b.vals[i])
      [] a.t = "list" ->
           /\ b.t = "list"
           /\ DOMAIN b.items = DOMAIN a.items
           /\ \A i \in DOMAIN a.items : Normalized(a.items[i], b.items[i])
      [] OTHER -> b = a

RECURSIVE HasDecimal(_)
HasDecimal(a) ==
    CASE a.t = "Decimal" -> TRUE
      [] a.t = "dict" -> \E i \in DOMAIN a.vals : HasDecimal(a.vals[i])
      [] a.t = "list" -> \E i \in DOMAIN a.items : HasDecimal(a.items[i])
      [] OTHER -> FALSE

\* C16: _convert_decimals_to_float returns for every value of dicts, lists
\* and leaves: the result has the same shape, the same keys in the same order
\* and the same list order, every Decimal at every depth is replaced by a
\* float, every other leaf is unchanged, and no Decimal remains.
ConversionPreservesStructure ==
    /\ pc = "convert_called" => ENABLED ConvertReturns
    /\ ConvertDone =>
           /\ Normalized(result, tool_result.data)
           /\ ~HasDecimal(tool_result.data)

\* the value nested three deep was converted at every depth
NestedExampleConverted ==
    /\ ConvertDone
    /\ result = NestedExample
    /\ tool_result.data.vals[1].items[1] = [t |-> "float", num |-> 3, den |-> 2]
    /\ tool_result.data.vals[1].items[2].vals[1] = [t |-> "float", num |-> 9, den |-> 4]

\* C17: in every successful result of query_database, row_count is the
\* number of rows the execution returned, truncated is true exactly when
\* row_count is above 100, and data holds the first min(row_count, 100) rows,
\* converted, in the order of the execution.
ResultMetadataMatchesRows ==
    tool_result.kind = "ok" =>
        LET m == tool_result.metadata
            n == Len(result.items)
        IN  /\ m.row_count = n
            /\ m.truncated <=> n > 100
            /\ Len(m.data) = IF n > 100 THEN 100 ELSE n
            /\ \A i \in 1..Len(m.data) :
                   m.data[i] = convert_decimals_to_float(result.items[i])

\* a request succeeded with one row more than the cap
ResultTruncated ==
    /\ tool_result.kind = "ok"
    /\ Len(result.items) = 101
    /\ tool_result.metadata.truncated
    /\ Len(tool_result.metadata.data) = 100
    /\ tool_result.metadata.data[100].vals[1] = PyInt(100)

\* the executions of the request that obtained a connection
Checkouts == { i \in CallsOf("execute") : calls[i].ok }

\* C18: a connection checked out by execute_query is released exactly once,
\* whether the statement succeeds or raises: at most one connection is out,
\* it is out only while the statement runs, and a request that has finished
\* (rejected, failed in execution or succeeded) holds none.
ConnectionsReleased ==
    /\ checked_out \in {0, 1}
    /\ checked_out = 1 <=> pc = "in_db"
    /\ checked_out = 1 => Checkouts # {} /\ calls[Len(calls)].op = "execute"
    /\ pc = "done" => checked_out = 0

\* every attempt of a request obtained a connection and failed in execution,
\* and the request ended holding none
ReleasedAfterExecutionErrors ==
    /\ pc = "done"
    /\ loop.kind = "raised"
    /\ max_retries = 3
    /\ Cardinality(Checkouts) = 3
    /\ checked_out = 0

\* C19: every correction call of _execute_with_retry is made right after an
\* attempt failed and receives three inputs: the statement submitted to the
\* validator in that attempt, the text of the error the validator or the
\* execution raised in that attempt, and the question of the request, the
\* same in every correction.
CorrectionInputs ==
    /\ \A i \in CallsOf("correct") :
           /\ i > 1
           /\ calls[i - 1].op = "fail"
           /\ calls[i - 1].attempt = calls[i].attempt
           /\ calls[i].msg = calls[i - 1].msg
           /\ calls[i].q = question
           /\ \E j \in CallsOf("validate") :
                  /\ j < i
                  /\ calls[j].attempt = calls[i].attempt
                  /\ calls[i].sql = calls[j].sql
                  /\ IF calls[j].ok
                     THEN calls[i].msg \in { e.msg : e \in ConnectErrors \cup ExecutionErrors }
                     ELSE calls[i].msg = calls[j].msg
    /\ pc = "correcting" =>
           /\ calls[Len(calls)].op = "correct"
           /\ calls[Len(calls)].sql = sql
           /\ calls[Len(calls)].msg = last_error.msg

\* two corrections of one request: the first for a statement the validator
\* rejected, the second for another statement that failed in execution
CorrectedTwice ==
    \E i, k \in CallsOf("correct") :
        /\ i < k
        /\ calls[i].sql # calls[k].sql
        /\ calls[i].msg # calls[k].msg
        /\ calls[i].q = calls[k].q
        /\ \E j \in CallsOf("validate") : j < i /\ ~calls[j].ok /\ calls[j].attempt = 0
        /\ \E j \in Checkouts : i < j /\ j < k

\* C20: whatever the generator answers, in generation and in correction, the
\* string handed on as SQL holds no markdown code fence.
NoFenceInSql ==
    /\ generated_sql # <<>> => ~Contains(generated_sql[1], Fence)
    /\ \A i \in CallsOf("validate") :
           (entry = "tool" \/ calls[i].attempt > 0) => ~Contains(calls[i].sql, Fence)

\* C21: query_database propagates no error: a request that ended on a failure
\* of the generation, of the validation, of the execution or on the exhausted
\* retries returned the error message and a metadata of exactly an error entry
\* and an sql entry (None when the generation itself failed), and no rows.
ToolReturnsErrors ==
    (pc = "done" /\ entry = "tool") =>
        /\ tool_result.kind \in {"ok", "error"}
        /\ tool_result.kind = "ok" <=> loop.kind = "rows"
        /\ tool_result.kind = "error" =>
               /\ StartsWith(tool_result.message, "Erro ao processar consulta: ")
               /\ DOMAIN tool_result.metadata = {"error", "sql"}
               /\ tool_result.message =
                      "Erro ao processar consulta: " \o tool_result.metadata.error
               /\ tool_result.metadata.sql = generated_sql
               /\ generated_sql = <<>> <=> loop.kind = "none"
               /\ loop.kind = "raised" => tool_result.metadata.error = loop.error.msg

\* a request whose three attempts failed, the last one in execution, returned
\* the aggregated error with the generated statement
ToolReturnedExhaustion ==
    /\ pc = "done"
    /\ entry = "tool"
    /\ tool_result.kind = "error"
    /\ attempt = 2
    /\ calls[Len(calls) - 1].op = "execute"
    /\ StartsWith(tool_result.metadata.error, "Falha após 3 tentativas.")
    /\ tool_result.metadata.sql # <<>>

\* C22: in every successful result of query_database, the SQL reported to the
\* caller, in the metadata and in the message, is the statement that was
\* executed to produce the rows.
ReportedSqlIsExecuted ==
    tool_result.kind = "ok" =>
        \E i \in Checkouts :
            /\ \A j \in Checkouts : j <= i
            /\ tool_result.metadata.sql = calls[i].sql
            /\ tool_result.message.sql = calls[i].sql

\* C23: the attempts of a request are strictly sequential and every failure
\* has exactly one sequel: after the failure of attempt i < max_retries - 1
\* one correction call is made and then attempt i + 1 starts its validation;
\* after the failure of attempt max_retries - 1 no correction call is made
\* and the loop fails.  No failure is left without one of the two.
FailureHasOneSequel ==
    /\ \A k \in 1..(Len(calls) - 1) : calls[k].attempt <= calls[k + 1].attempt
    /\ \A j, k \in CallsOf("validate") : calls[j].attempt = calls[k].attempt => j = k
    /\ \A k \in CallsOf("validate") :
           /\ calls[k].attempt > 0 =>
                  calls[k - 1].op = "correct" /\ calls[k - 1].attempt = calls[k].attempt - 1
           /\ (~calls[k].ok /\ k < Len(calls)) => calls[k + 1].op = "fail"
    /\ \A k \in CallsOf("fail") :
           LET i == calls[k].attempt
               corrections == { c \in CallsOf("correct") : calls[c].attempt = i }
           IN  IF i < max_retries - 1
               THEN /\ corrections = {k + 1}
                    /\ (pc = "correcting" /\ attempt = i)
                           \/ (pc = "validating" /\ attempt = i + 1)
                           \/ /\ k + 2 <= Len(calls)
                              /\ calls[k + 2].op = "validate"
                              /\ calls[k + 2].attempt = i + 1
               ELSE /\ corrections = {}
                    /\ k = Len(calls)
                    /\ pc = "done"
                    /\ loop.kind = "raised"

\* C24: formatting and the guardrail rewrite never reject: a statement that
\* parses, holds no denied keyword and is of an allowed kind is accepted by
\* validate; _format_sql and _apply_guardrails always return, and for a text
\* they cannot parse they return the text they were given.
RewriteNeverRejects ==
    /\ ( /\ ValidateDone
         /\ parse_one(sql).status = "ok"
         /\ ~HasDeniedWord(sql)
         /\ StrLower(parse_one(sql).node.k) \in {"select", "with", "union"} ) =>
           verdict.ok /\ verdict.error = NoError /\ verdict.sql # ""
    /\ \A i \in CallsOf("format_sql") \cup CallsOf("apply_guardrails") :
           /\ calls[i].ok
           /\ parse_one(calls[i].sql).status # "ok" => calls[i].out = calls[i].sql

\* _format_sql returned a text that does not parse as it was given
FormatFellBack ==
    /\ pc = "done"
    /\ entry = "format_sql"
    /\ sql = "SELECT ("
    /\ calls[1].op = "format_sql"
    /\ calls[1].out = "SELECT ("

\* C30: called with max_retries <= 0, _execute_with_retry makes no call of
\* the validator, of the database or of the correction, and raises the
\* aggregated failure that names max_retries and, for the last error, None.
EmptyBudgetFails ==
    (entry = "direct" /\ max_retries <= 0) =>
        /\ pc = "done"
        /\ calls = <<>>
        /\ checked_out = 0
        /\ last_error = NoError
        /\ loop.kind = "raised"
        /\ loop.error.type = "Exception"
        /\ loop.error.msg =
               "Falha após " \o ToString(max_retries) \o " tentativas. Último erro: None"

\* _execute_with_retry was called with max_retries = 0
ZeroBudgetFailed ==
    /\ entry = "direct"
    /\ max_retries = 0
    /\ sql = "select * from t"
    /\ loop.error.msg = "Falha após 0 tentativas. Último erro: None"

\* C28: a request holds a connection only during the execute step of an
\* attempt: while the generator is called (generation or correction), while
\* the validator runs and between the steps it holds none.
NoConnectionOutsideExecute ==
    /\ pc \in {"generating", "validating", "executing", "correcting"} => checked_out = 0
    /\ checked_out > 0 => calls # <<>> /\ calls[Len(calls)].op = "execute"

\* the request waits for a correction after its statement failed in the
\* database, and holds no connection
CorrectingWithoutConnection ==
    /\ pc = "correcting"
    /\ checked_out = 0
    /\ Len(calls) >= 3
    /\ calls[Len(calls) - 2].op = "execute"
    /\ calls[Len(calls) - 2].ok
    /\ calls[Len(calls)].op = "correct"

\* C29: validate is a function of the text and the policy, and the keyword
\* named in a denylist rejection is the first keyword of blocked_operations,
\* in the configured order, that occurs in the text as a whole word, wherever
\* the keywords stand in the text; two validations of one text give the same
\* verdict, the same SQL and the same message.
DenylistTieBreak ==
    /\ (ValidateDone /\ verdict.gate = "blocked") =>
           \E i \in DOMAIN blocked_operations :
               /\ OccursAsWord(blocked_operations[i], sql)
               /\ \A j \in 1..(i - 1) : ~OccursAsWord(blocked_operations[j], sql)
               /\ verdict.error.msg =
                      "Operação bloqueada detectada: " \o blocked_operations[i]
                          \o ". Apenas queries SELECT (read-only) são permitidas."
    /\ \A i, j \in CallsOf("validate") :
           calls[i].sql = calls[j].sql =>
               /\ calls[i].ok = calls[j].ok
               /\ calls[i].out = calls[j].out
               /\ calls[i].msg = calls[j].msg

\* a text with DELETE in front of DROP was validated twice and rejected
\* twice for DROP
TwiceRejectedForDrop ==
    /\ ValidateDone
    /\ sql = "DELETE FROM t; DROP TABLE t"
    /\ Len(calls) = 2
    /\ \A i \in 1..2 :
           calls[i].msg = "Operação bloqueada detectada: DROP. "
                              \o "Apenas queries SELECT (read-only) são permitidas."
\* C26: the attempt budget with which query_database runs the retry loop is
\* the policy's max_retry_attempts: for every configured value N the loop runs
\* with max_retries = N and makes at most N attempts.
ConfiguredBudget ==
    entry = "tool" =>
        /\ pc \notin {"idle", "generating"} /\ generated_sql # <<>> =>
                max_retries = guardrails.max_retry_attempts
        /\ Cardinality(CallsOf("validate")) <= guardrails.max_retry_attempts

\* C27: every statement executed through db_manager runs on a connection
\* whose statement timeout is the configured statement_timeout, whatever the
\* statement leaves in its session and whatever ran before on that pooled
\* connection: the connection in use and every connection waiting in the pool
\* carry the configured value.
TimeoutInForce ==
    /\ \A i \in 1..Len(pool.busy) : pool.busy[i].statement_timeout = statement_timeout
    /\ \A i \in 1..Len(pool.idle) : pool.idle[i].statement_timeout = statement_timeout
    /\ pc = "in_db" => Len(pool.busy) = 1

\* a statement runs on a pooled connection that has run two statements before
ReusedConnectionExecutes ==
    /\ pc = "in_db"
    /\ pool.idle = <<>>
    /\ Len(pool.busy) = 1
    /\ pool.busy[1].statements = 2
    /\ pool.busy[1].statement_timeout = statement_timeout

\* C25: two concurrent requests share only the read-only policy and the
\* connection pool: the policy keeps the value it was loaded with, and under
\* every interleaving each finished request has the outcome that
\* _execute_with_retry yields alone for its statement, its budget and the
\* responses it received.
IsolatedRequests ==
    /\ guardrails = GuardrailsConfig(max_retry_attempts)
    /\ \A r \in Requests :
           pc[r] = "done" =>
               loop[r] = Replay(calls[r][1].sql, calls[r][1].max_retries, 0, NoError,
                                Tail(calls[r]))

\* both requests were in the database at the same time; the first was
\* corrected once and returned rows, the second was rejected to exhaustion
InterleavedDifferently ==
    /\ pc = [r \in Requests |-> "done"]
    /\ Len(pool.idle) = 2
    /\ attempt[1] = 1 /\ loop[1].kind = "rows"
    /\ calls[2][1].sql = "select * from t"
    /\ attempt[2] = 1 /\ loop[2].kind = "raised"
    /\ loop[2].error.type = "Exception"

====
